---- MODULE Spec2Model ----
(***************************************************************************)
(* Plants vs Zombies - Redis Edition: the simulation engine                *)
(* (PlantsVsZombiesEngine and WaveManager of the game engine, configured   *)
(* by config/game-config.js).  One session of the engine is modelled: the  *)
(* commands createGame, joinGame, startGame, placePlant, usePowerup,       *)
(* removePlayer, pauseGame, resumeGame and the setInterval callback        *)
(* updateGame.                                                             *)
(*                                                                         *)
(* Numbers.  Times are milliseconds of Date.now().  Horizontal positions   *)
(* (zombie.x, projectile.x) are kept in millionths of a column, so that    *)
(* speed * deltaTime is exact.  The JavaScript values undefined and NaN    *)
(* behave alike wherever the engine uses them as numbers (every comparison *)
(* is false, every sum is NaN); both are the value NaN below.              *)
(***************************************************************************)
EXTENDS Integers, Sequences, FiniteSets, TLC

VARIABLES
    now,          \* Date.now()
    period,       \* the time between two setInterval callbacks
    rng,          \* the generator behind Math.random(): [cur, step]
    games,        \* this.games.has(gameId)
    redis,        \* the session as redis.saveGameState wrote it last
    gameLoops,    \* this.gameLoops.has(gameId)
    gameState,    \* the session object
    waveManager,  \* this.waveManagers.get(gameId), with .exists
    nextId,       \* the next identity uuidv4() hands out
    published,    \* what the last step published (redis.publishGameUpdate)
    pending,      \* the timer callbacks that wait at an await of updateGame
    lastCall,     \* the last command or callback and its outcome
    hist          \* history of the run, read by the properties only

vars == <<now, period, rng, games, redis, gameLoops, gameState, waveManager,
          nextId, published, pending, lastCall, hist>>

----------------------------------------------------------------------------
(* JavaScript numbers *)

NaN == 0 - 999999999

\* null, as JSON.stringify writes a NaN
Null == 0 - 999999998

IsNaN(a) == a = NaN

JsAdd(a, b) == IF IsNaN(a) \/ IsNaN(b) THEN NaN ELSE a + b
JsSub(a, b) == IF IsNaN(a) \/ IsNaN(b) THEN NaN ELSE a - b
JsLt(a, b)  == ~IsNaN(a) /\ ~IsNaN(b) /\ a < b
JsLe(a, b)  == ~IsNaN(a) /\ ~IsNaN(b) /\ a <= b
JsGe(a, b)  == ~IsNaN(a) /\ ~IsNaN(b) /\ a >= b
Truthy(a)   == ~IsNaN(a) /\ a # 0

\* millionths of a column
XS == 1000 * 1000

Abs(a) == IF a < 0 THEN 0 - a ELSE a

----------------------------------------------------------------------------
(* config/game-config.js *)

ROWS == 5
COLS == 9

INITIAL_SUN == 50
SUN_FALL_INTERVAL == 10000
SUN_FALL_AMOUNT == 25
GAME_SPEED == 60

FIRST_WAVE_DELAY == 45000
PREPARATION_TIME == 30000

MAX_PLAYERS_PER_GAME == 4

SUNFLOWER   == "Sunflower"
PEASHOOTER  == "Peashooter"
SNOW_PEA    == "Snow Pea"
WALL_NUT    == "Wall-nut"
CHERRY_BOMB == "Cherry Bomb"
JALAPENO    == "Jalapeno"
CACTUS      == "Cactus"
PUFF_SHROOM == "Puff-shroom"

\* A plant entry; a field the entry does not have is NaN (undefined).
PlantEntry(cost, health, damage, fireRate, projectileSpeed, sunProduction,
           sunInterval, fuseTime, radius4, range, slowNum, slowDuration) ==
    [cost |-> cost, health |-> health, damage |-> damage,
     fireRate |-> fireRate, projectileSpeed |-> projectileSpeed,
     sunProduction |-> sunProduction, sunInterval |-> sunInterval,
     fuseTime |-> fuseTime,
     explosionRadius4 |-> radius4,  \* (2 * explosionRadius)^2: 1.5 -> 9
     range |-> range,
     slowEffect2 |-> slowNum,       \* 2 * slowEffect: 0.5 -> 1
     slowDuration |-> slowDuration]

PlantNames == {SUNFLOWER, PEASHOOTER, SNOW_PEA, WALL_NUT, CHERRY_BOMB,
               JALAPENO, CACTUS, PUFF_SHROOM}

PLANTS ==
    [t \in PlantNames |->
       CASE t = SUNFLOWER ->
              PlantEntry(50, 300, NaN, NaN, NaN, 25, 24000, NaN, NaN, NaN, NaN, NaN)
         [] t = PEASHOOTER ->
              PlantEntry(100, 300, 20, 1400, 5, NaN, NaN, NaN, NaN, NaN, NaN, NaN)
         [] t = SNOW_PEA ->
              PlantEntry(175, 300, 20, 1400, 5, NaN, NaN, NaN, NaN, NaN, 1, 3000)
         [] t = WALL_NUT ->
              PlantEntry(50, 4000, NaN, NaN, NaN, NaN, NaN, NaN, NaN, NaN, NaN, NaN)
         [] t = CHERRY_BOMB ->
              PlantEntry(150, 1, 1800, NaN, NaN, NaN, NaN, 1500, 9, NaN, NaN, NaN)
         [] t = JALAPENO ->
              PlantEntry(125, 1, 1800, NaN, NaN, NaN, NaN, 2000, NaN, NaN, NaN, NaN)
         [] t = CACTUS ->
              PlantEntry(125, 300, 20, 1400, 5, NaN, NaN, NaN, NaN, NaN, NaN, NaN)
         [] t = PUFF_SHROOM ->
              PlantEntry(0, 300, 20, 1400, NaN, NaN, NaN, NaN, NaN, 3, NaN, NaN)]

\* Property names every object literal inherits from Object.prototype:
\* PLANTS[name] is then a function object, which is truthy and has none of
\* the entry's fields.
ObjectPrototypeNames == {"constructor", "toString", "valueOf", "hasOwnProperty"}

InheritedEntry ==
    PlantEntry(NaN, NaN, NaN, NaN, NaN, NaN, NaN, NaN, NaN, NaN, NaN, NaN)

\* this.PLANTS[plantType]: .found is the truthiness of the looked-up value
PlantLookup(plantType) ==
    IF plantType \in PlantNames
      THEN [found |-> TRUE, data |-> PLANTS[plantType]]
      ELSE IF plantType \in ObjectPrototypeNames
        THEN [found |-> TRUE, data |-> InheritedEntry]
        ELSE [found |-> FALSE, data |-> InheritedEntry]

BASIC      == "Basic Zombie"
CONEHEAD   == "Conehead Zombie"
BUCKETHEAD == "Buckethead Zombie"
RUNNER     == "Runner Zombie"
VAULTER    == "Pole Vaulting Zombie"
BALLOON    == "Balloon Zombie"
BOSS       == "Boss Zombie"

ZombieNames == {BASIC, CONEHEAD, BUCKETHEAD, RUNNER, VAULTER, BALLOON, BOSS}

ZombieEntry(health, speed, damage, attackRate, points) ==
    [health |-> health, speed |-> speed, damage |-> damage,
     attackRate |-> attackRate, points |-> points]

ZOMBIES ==
    [t \in ZombieNames |->
       CASE t = BASIC      -> ZombieEntry(200, 8, 100, 1000, 10)
         [] t = CONEHEAD   -> ZombieEntry(640, 6, 100, 1000, 20)
         [] t = BUCKETHEAD -> ZombieEntry(1370, 5, 100, 1000, 30)
         [] t = RUNNER     -> ZombieEntry(200, 18, 100, 1000, 15)
         [] t = VAULTER    -> ZombieEntry(500, 25, 100, 1000, 25)
         [] t = BALLOON    -> ZombieEntry(280, 20, 100, 1000, 35)
         [] t = BOSS       -> ZombieEntry(3000, 8, 200, 800, 100)]

SpawnEvent(time, groups) ==
    [time |-> time, event |-> "spawn", zombies |-> groups,
     duration |-> NaN, spawnRate |-> NaN]
HordeEvent(time, duration, spawnRate) ==
    [time |-> time, event |-> "horde_start", zombies |-> <<>>,
     duration |-> duration, spawnRate |-> spawnRate]
Group(type, count, lanes) == [type |-> type, count |-> count, lanes |-> lanes]

\* WAVES[i + 1] is GAME_CONFIG.WAVES[i]
WAVES == <<
    [timeline |-> <<SpawnEvent(0,     <<Group(BASIC, 1, "random")>>),
                    SpawnEvent(10000, <<Group(BASIC, 1, "random")>>),
                    SpawnEvent(20000, <<Group(BASIC, 2, "random")>>)>>,
     zombiePool |-> <<BASIC>>, duration |-> 30000],
    [timeline |-> <<SpawnEvent(0,     <<Group(BASIC, 2, "random")>>),
                    SpawnEvent(8000,  <<Group(CONEHEAD, 1, "random")>>),
                    SpawnEvent(15000, <<Group(BASIC, 2, "random")>>),
                    SpawnEvent(25000, <<Group(BASIC, 1, "random")>>)>>,
     zombiePool |-> <<BASIC, CONEHEAD>>, duration |-> 35000],
    [timeline |-> <<SpawnEvent(0,     <<Group(BASIC, 3, "random")>>),
                    HordeEvent(12000, 15000, 1000),
                    SpawnEvent(30000, <<Group(CONEHEAD, 2, "random")>>)>>,
     zombiePool |-> <<BASIC, CONEHEAD>>, duration |-> 40000],
    [timeline |-> <<SpawnEvent(0,     <<Group(BASIC, 2, "random")>>),
                    SpawnEvent(10000, <<Group(RUNNER, 2, "random")>>),
                    SpawnEvent(18000, <<Group(CONEHEAD, 1, "random")>>),
                    SpawnEvent(25000, <<Group(RUNNER, 1, "random")>>),
                    SpawnEvent(35000, <<Group(BASIC, 3, "random")>>)>>,
     zombiePool |-> <<BASIC, CONEHEAD, RUNNER>>, duration |-> 45000],
    [timeline |-> <<SpawnEvent(0,     <<Group(BASIC, 4, "random")>>),
                    HordeEvent(15000, 20000, 800),
                    SpawnEvent(40000, <<Group(BOSS, 1, "center")>>),
                    SpawnEvent(45000, <<Group(CONEHEAD, 2, "random")>>)>>,
     zombiePool |-> <<BASIC, CONEHEAD, RUNNER, BOSS>>, duration |-> 60000] >>

NumWaves == Len(WAVES)

SUN_BOOST    == "Sun Boost"
SPEED_BOOST  == "Speed Boost"
PLANT_SHIELD == "Plant Shield"
DAMAGE_BOOST == "Damage Boost"

PowerupNames == {SUN_BOOST, SPEED_BOOST, PLANT_SHIELD, DAMAGE_BOOST}

POWERUPS ==
    [t \in PowerupNames |->
       CASE t = SUN_BOOST ->
              [effect |-> "sun", amount |-> 100, duration |-> 0, cooldown |-> 60000]
         [] t = SPEED_BOOST ->
              [effect |-> "speed", amount |-> NaN, duration |-> 10000, cooldown |-> 90000]
         [] t = PLANT_SHIELD ->
              [effect |-> "shield", amount |-> NaN, duration |-> 15000, cooldown |-> 120000]
         [] t = DAMAGE_BOOST ->
              [effect |-> "damage", amount |-> NaN, duration |-> 12000, cooldown |-> 100000]]

PowerupLookup(powerupType) ==
    IF powerupType \in PowerupNames
      THEN [found |-> TRUE, data |-> POWERUPS[powerupType]]
      ELSE IF powerupType \in ObjectPrototypeNames
        THEN [found |-> TRUE,
              data |-> [effect |-> "undefined", amount |-> NaN,
                        duration |-> NaN, cooldown |-> NaN]]
        ELSE [found |-> FALSE,
              data |-> [effect |-> "undefined", amount |-> NaN,
                        duration |-> NaN, cooldown |-> NaN]]

----------------------------------------------------------------------------
(* The engine's state as one value, so that the methods are operators on it *)

Rows == 0 .. (ROWS - 1)
Cols == 0 .. (COLS - 1)

PlayerIds == {"alice", "bob"}

\* Math.random() is a pseudo-random generator: the stream of its values is
\* fixed by its state, which the initial state draws.  Math.floor(
\* Math.random() * n) is cur % n, and a draw moves cur on by step.
RngPeriod == ROWS * 12

RandomInt(w, n) == w.rng.cur % n
Drawn(w) == [w EXCEPT !.rng.cur = (w.rng.cur + w.rng.step) % RngPeriod]

Publish(w, type, info) ==
    [w EXCEPT !.pub = Append(w.pub, [type |-> type, info |-> info])]

\* new WaveManager(gameEngine, gameState)
NewWaveManager ==
    [exists |-> TRUE, currentWaveIndex |-> 0, waveStartTime |-> 0,
     hordeActive |-> FALSE, hordeEndTime |-> 0, lastHordeSpawn |-> 0,
     hordeSpawnRate |-> NaN,
     waveEvents |-> <<>>, processedEvents |-> {}]

NoWaveManager == [NewWaveManager EXCEPT !.exists = FALSE]

initializeBoard ==
    [rc \in Rows \X Cols |-> [plant |-> 0, canPlant |-> rc[2] > 0]]

initializeLawnMowers ==
    [row \in Rows |-> [active |-> TRUE, triggered |-> FALSE]]

\* player.powerups = {}: a type never used reads as undefined, read through
\* "|| 0"; an inherited name reads as a function, which is NaN as a number.
NoPowerups ==
    [t \in PowerupNames \cup ObjectPrototypeNames |->
       IF t \in PowerupNames THEN 0 ELSE NaN]

NewPlayer(isHost) ==
    [isHost |-> isHost, sun |-> INITIAL_SUN, score |-> 0, plantsPlaced |-> 0,
     zombiesKilled |-> 0, powerups |-> NoPowerups, finalScore |-> NaN]

NewGameState(hostPlayerId, t) ==
    [status |-> "waiting", result |-> "none",
     lastUpdate |-> t,
     players |-> [p \in {hostPlayerId} |-> NewPlayer(TRUE)],
     board |-> initializeBoard,
     plants |-> <<>>, zombies |-> <<>>, projectiles |-> <<>>,
     lawnMowers |-> initializeLawnMowers,
     currentWave |-> 0, waveInProgress |-> FALSE, nextWaveTime |-> 0,
     sunFallTimer |-> t + SUN_FALL_INTERVAL,
     activeEffects |-> <<>>,
     pausedAt |-> 0, endTime |-> 0,
     stats |-> [gameStartTime |-> t, totalZombiesSpawned |-> 0,
                totalPlantsPlaced |-> 0, totalSunCollected |-> 0]]

\* the session object before createGame has built one
NoGameState == [NewGameState("alice", 0) EXCEPT !.status = "none"]

Ok(w) == [w |-> w, result |-> "ok"]
Throw(w, message) == [w |-> w, result |-> message]

----------------------------------------------------------------------------
(* Game lifecycle *)

\* JSON.stringify(gameState): a property that is undefined is left out and
\* is undefined again when read; a number that is NaN is written as null
Stringified(gs) ==
    [gs EXCEPT !.players =
       [p \in DOMAIN @ |-> [@[p] EXCEPT !.sun = IF IsNaN(@) THEN Null ELSE @]]]

\* JSON.parse of it: null stays null, and null counts as 0 in the sums and
\* comparisons the engine makes
ParsedGame(data) ==
    [data EXCEPT !.players =
       [p \in DOMAIN @ |-> [@[p] EXCEPT !.sun = IF @ = Null THEN 0 ELSE @]]]

\* redis.saveGameState(gameId, gameState)
saveGameState(w) == [w EXCEPT !.redis = Stringified(w.gs)]

\* redis.getGameState(gameId) found the session
Saved(w) == w.redis.status # "none"

\* this.games.set(gameId, await this.redis.getGameState(gameId))
loadGame(w) == [w EXCEPT !.gs = ParsedGame(w.redis), !.games = TRUE]

createGame(w, hostPlayerId, t) ==
    Ok(saveGameState(
         [w EXCEPT !.gs = NewGameState(hostPlayerId, t), !.games = TRUE]))

WithPlayer(players, playerId, player) ==
    [p \in (DOMAIN players) \cup {playerId} |->
       IF p = playerId THEN player ELSE players[p]]

\* a join that lets one player too many in
joinLoadedOneMore(w, playerId, t) ==
    IF w.gs.status # "waiting" THEN Throw(w, "Game already in progress")
    ELSE IF Cardinality(DOMAIN w.gs.players) > MAX_PLAYERS_PER_GAME
      THEN Throw(w, "Game is full")
    ELSE Ok(Publish(saveGameState(
           [w EXCEPT !.gs.players = WithPlayer(@, playerId, NewPlayer(FALSE))]),
           "player_joined", playerId))

\* joinGame once the session is in memory
joinLoaded(w, playerId, t) ==
    IF w.gs.status # "waiting" THEN Throw(w, "Game already in progress")
    ELSE IF Cardinality(DOMAIN w.gs.players) >= MAX_PLAYERS_PER_GAME
      THEN Throw(w, "Game is full")
    ELSE Ok(Publish(saveGameState(
           [w EXCEPT !.gs.players = WithPlayer(@, playerId, NewPlayer(FALSE))]),
           "player_joined", playerId))

joinGame(w, playerId, t) ==
    IF w.games THEN joinLoaded(w, playerId, t)
    ELSE IF ~Saved(w) THEN Throw(w, "Game not found")
    ELSE joinLoaded(loadGame(w), playerId, t)

startGameLoop(w) == [w EXCEPT !.loops = TRUE]

stopGameLoop(w) == [w EXCEPT !.loops = FALSE]

\* a start that any player of the session may ask for
startGameByAnyone(w, playerId, t) ==
    IF ~w.games THEN Throw(w, "Game not found")
    ELSE IF playerId \notin DOMAIN w.gs.players
      THEN Throw(w, "Only the host can start the game")
    ELSE IF w.gs.status # "waiting" THEN Throw(w, "Game already started")
    ELSE Ok(Publish(startGameLoop(saveGameState(
           [w EXCEPT !.gs.status = "playing",
                     !.gs.stats.gameStartTime = t,
                     !.gs.nextWaveTime = t + FIRST_WAVE_DELAY,
                     !.wm = NewWaveManager])),
           "game_started", 0))

startGame(w, playerId, t) ==
    IF ~w.games THEN Throw(w, "Game not found")
    ELSE IF playerId \notin DOMAIN w.gs.players
            \/ ~w.gs.players[playerId].isHost
      THEN Throw(w, "Only the host can start the game")
    ELSE IF w.gs.status # "waiting" THEN Throw(w, "Game already started")
    ELSE Ok(Publish(startGameLoop(saveGameState(
           [w EXCEPT !.gs.status = "playing",
                     !.gs.stats.gameStartTime = t,
                     !.gs.nextWaveTime = t + FIRST_WAVE_DELAY,
                     !.wm = NewWaveManager])),
           "game_started", 0))

----------------------------------------------------------------------------
(* Plant management *)

NewPlant(id, plantType, row, col, playerId, plantData, t) ==
    [id |-> id, type |-> plantType, row |-> row, col |-> col,
     ownerId |-> playerId, health |-> plantData.health,
     lastShot |-> 0, lastSunProduction |-> t, plantedAt |-> t]

\* a position check that takes the lawn-mower column for a plantable one
invalidPositionFromZero(row, col) ==
    row < 0 \/ row >= ROWS \/ col < 0 \/ col >= COLS

\* "Validate position" of placePlant
invalidPosition(row, col) ==
    row < 0 \/ row >= ROWS \/ col < 1 \/ col >= COLS

placePlant(w, playerId, plantType, row, col, t) ==
    LET plantLookup == PlantLookup(plantType)
        plantData == plantLookup.data
    IN
    IF ~w.games \/ w.gs.status # "playing" THEN Throw(w, "Invalid game state")
    ELSE IF playerId \notin DOMAIN w.gs.players THEN Throw(w, "Player not found")
    ELSE IF ~plantLookup.found THEN Throw(w, "Invalid plant type")
    ELSE IF invalidPosition(row, col) THEN Throw(w, "Invalid position")
    ELSE IF w.gs.board[<<row, col>>].plant # 0
      THEN Throw(w, "Position already occupied")
    ELSE IF JsLt(w.gs.players[playerId].sun, plantData.cost)
      THEN Throw(w, "Not enough sun")
    ELSE
      LET plant == NewPlant(w.nextId, plantType, row, col, playerId, plantData, t)
          placed ==
            [w EXCEPT !.nextId = @ + 1,
                      !.gs.board[<<row, col>>].plant = plant.id,
                      !.gs.plants = Append(@, plant),
                      !.gs.players[playerId].sun = JsSub(@, plantData.cost),
                      !.gs.players[playerId].plantsPlaced = @ + 1,
                      !.gs.stats.totalPlantsPlaced = @ + 1]
      IN [w |-> Publish(Publish(saveGameState(placed), "game_update", 0),
                        "plant_placed", plant.id),
          result |-> "ok",
          plant |-> plant.id, cost |-> plantData.cost,
          remainingSun |-> placed.gs.players[playerId].sun]

----------------------------------------------------------------------------
(* Wave manager *)

ZombieSpawnX == (COLS - 1) * XS

spawnZombie(w, zombieType, row, t) ==
    IF zombieType \notin ZombieNames THEN w
    ELSE
      LET zombieData == ZOMBIES[zombieType]
          zombie == [id |-> w.nextId, type |-> zombieType, row |-> row,
                     col |-> COLS - 1, x |-> ZombieSpawnX,
                     health |-> zombieData.health, speed |-> zombieData.speed,
                     speedDen |-> 1,
                     lastAttack |-> 0, effects |-> <<>>]
      IN [w EXCEPT !.nextId = @ + 1,
                   !.gs.zombies = Append(@, zombie),
                   !.gs.stats.totalZombiesSpawned = @ + 1,
                   !.hist.credits = @ @@ (zombie.id :> 0)]

\* selectLane(laneSpec): [w, lane]; the random cases draw from Math.random()
selectLane(w, laneSpec) ==
    CASE laneSpec = "random" -> [w |-> Drawn(w), lane |-> RandomInt(w, ROWS)]
      [] laneSpec = "center" -> [w |-> w, lane |-> ROWS \div 2]
      [] laneSpec = "top"    -> [w |-> w, lane |-> 0]
      [] laneSpec = "bottom" -> [w |-> w, lane |-> ROWS - 1]
      [] laneSpec = "outer"  ->
           [w |-> Drawn(w),
            lane |-> IF RandomInt(w, 2) = 0 THEN 0 ELSE ROWS - 1]
      [] OTHER               -> [w |-> Drawn(w), lane |-> RandomInt(w, ROWS)]

RECURSIVE spawnGroup(_, _, _, _)
spawnGroup(w, group, i, t) ==
    IF i >= group.count THEN w
    ELSE LET sel == selectLane(w, group.lanes)
         IN spawnGroup(spawnZombie(sel.w, group.type, sel.lane, t), group, i + 1, t)

RECURSIVE spawnZombies(_, _, _, _)
spawnZombies(w, zombieGroups, g, t) ==
    IF g > Len(zombieGroups) THEN w
    ELSE spawnZombies(spawnGroup(w, zombieGroups[g], 0, t), zombieGroups, g + 1, t)

\* a horde whose end is its duration, not a time
startHordeWithoutNow(w, duration, spawnRate, t) ==
    [w EXCEPT !.wm.hordeActive = TRUE,
              !.wm.hordeEndTime = duration,
              !.wm.hordeSpawnRate = spawnRate,
              !.wm.lastHordeSpawn = t]

startHorde(w, duration, spawnRate, t) ==
    [w EXCEPT !.wm.hordeActive = TRUE,
              !.wm.hordeEndTime = t + duration,
              !.wm.hordeSpawnRate = spawnRate,
              !.wm.lastHordeSpawn = t]

spawnHordeZombie(w, t) ==
    LET pool == WAVES[w.wm.currentWaveIndex + 1].zombiePool
        zombieType == pool[RandomInt(w, Len(pool)) + 1]
        sel == selectLane(Drawn(w), "random")
    IN spawnZombie(sel.w, zombieType, sel.lane, t)

\* The effective time elapsed since wave k started: the time since then
\* less the time the session has spent paused since then.
EffectiveElapsed(h, k, t) ==
    (t - h.waveStart[k].at) - (h.pausedTotal - h.waveStart[k].paused)

processEvent(w, event, t) ==
    CASE event.event = "spawn" -> spawnZombies(w, event.zombies, 1, t)
      [] event.event = "horde_start" ->
           startHorde(w, event.duration, event.spawnRate, t)
      [] OTHER -> w

\* history: one more execution of event `index` of the wave being played
NoteProcessed(w, index, t) ==
    LET k == w.wm.currentWaveIndex
    IN [w EXCEPT !.hist.fired[<<k, index>>] = @ + 1,
                 !.hist.firedAt[<<k, index>>] = EffectiveElapsed(w.hist, k, t)]

\* WaveManager.startWave(waveIndex): [w, started]
startWave(w, waveIndex, t) ==
    IF waveIndex >= NumWaves THEN [w |-> w, started |-> FALSE]
    ELSE [w |-> [w EXCEPT !.wm.currentWaveIndex = waveIndex,
                          !.wm.waveStartTime = t,
                          !.wm.processedEvents = {},
                          !.wm.hordeActive = FALSE,
                          !.wm.waveEvents = WAVES[waveIndex + 1].timeline,
                          !.hist.waveStart[waveIndex] =
                              [at |-> t, paused |-> w.hist.pausedTotal],
                          !.hist.starts[waveIndex] = @ + 1],
          started |-> TRUE]

\* a forEach that does not look at the processed set
RECURSIVE processTimelineAgain(_, _, _)
processTimelineAgain(w, index, t) ==
    IF index >= Len(w.wm.waveEvents) THEN w
    ELSE
      LET event == w.wm.waveEvents[index + 1]
          eventId == <<w.wm.currentWaveIndex, index>>
          waveElapsed == t - w.wm.waveStartTime
      IN IF waveElapsed >= event.time
           THEN processTimelineAgain(
                  [NoteProcessed(processEvent(w, event, t), index, t)
                     EXCEPT !.wm.processedEvents = @ \cup {eventId}],
                  index + 1, t)
           ELSE processTimelineAgain(w, index + 1, t)

\* the forEach over this.waveEvents; index is the 0-based array index
RECURSIVE processTimeline(_, _, _)
processTimeline(w, index, t) ==
    IF index >= Len(w.wm.waveEvents) THEN w
    ELSE
      LET event == w.wm.waveEvents[index + 1]
          eventId == <<w.wm.currentWaveIndex, index>>
          waveElapsed == t - w.wm.waveStartTime
      IN IF eventId \notin w.wm.processedEvents /\ waveElapsed >= event.time
           THEN processTimeline(
                  [NoteProcessed(processEvent(w, event, t), index, t)
                     EXCEPT !.wm.processedEvents = @ \cup {eventId}],
                  index + 1, t)
           ELSE processTimeline(w, index + 1, t)

\* the horde spawning of WaveManager.update()
spawnHorde(w, t) ==
    IF w.wm.hordeActive
       /\ JsGe(t, JsAdd(w.wm.lastHordeSpawn, w.wm.hordeSpawnRate))
      THEN [spawnHordeZombie(w, t) EXCEPT !.wm.lastHordeSpawn = t]
      ELSE w

\* the end of the horde in WaveManager.update()
endHorde(w, t) ==
    IF w.wm.hordeActive /\ t >= w.wm.hordeEndTime
      THEN [w EXCEPT !.wm.hordeActive = FALSE]
      ELSE w

\* WaveManager.update()
update(w, t) ==
    IF Len(w.wm.waveEvents) = 0 THEN w
    ELSE endHorde(spawnHorde(processTimeline(w, 0, t), t), t)

\* a wave that is over once its duration has elapsed, zombies or not
isWaveCompleteByTime(w, t) ==
    t - w.wm.waveStartTime >= WAVES[w.wm.currentWaveIndex + 1].duration

\* WaveManager.isWaveComplete()
isWaveComplete(w, t) ==
    LET wave == WAVES[w.wm.currentWaveIndex + 1]
        waveElapsed == t - w.wm.waveStartTime
    IN waveElapsed >= wave.duration /\ Len(w.gs.zombies) = 0

----------------------------------------------------------------------------
(* Combat *)

\* the plant object a board cell or a list entry refers to, by identity
PlantIndex(gs, id) ==
    IF \E i \in 1 .. Len(gs.plants) : gs.plants[i].id = id
      THEN CHOOSE i \in 1 .. Len(gs.plants) :
             /\ gs.plants[i].id = id
             /\ \A j \in 1 .. (i - 1) : gs.plants[j].id # id
      ELSE 0

RemoveAt(seq, i) == SubSeq(seq, 1, i - 1) \o SubSeq(seq, i + 1, Len(seq))

\* a removal that forgets the board
removePlantFromList(w, plant) ==
    IF PlantIndex(w.gs, plant.id) # 0
      THEN [w EXCEPT !.gs.plants = RemoveAt(@, PlantIndex(w.gs, plant.id))]
      ELSE w

removePlant(w, plant) ==
    LET cleared == [w EXCEPT !.gs.board[<<plant.row, plant.col>>].plant = 0]
        index == PlantIndex(w.gs, plant.id)
    IN IF index # 0
         THEN [cleared EXCEPT !.gs.plants = RemoveAt(@, index)]
         ELSE cleared

\* a kill that only the host is credited with
killZombieForHost(w, zi) ==
    LET zombie == w.gs.zombies[zi]
        points == ZOMBIES[zombie.type].points
    IN [w EXCEPT !.gs.players =
                     [p \in DOMAIN @ |->
                        IF @[p].isHost
                          THEN [@[p] EXCEPT !.score = @ + points,
                                            !.zombiesKilled = @ + 1]
                          ELSE @[p]],
                 !.gs.zombies[zi].health = 0,
                 !.hist.credits[zombie.id] = @ + 1]

\* killZombie(gameState, zombie), the zombie being gameState.zombies[zi]
killZombie(w, zi) ==
    LET zombie == w.gs.zombies[zi]
        points == ZOMBIES[zombie.type].points
    IN [w EXCEPT !.gs.players =
                     [p \in DOMAIN @ |->
                        [@[p] EXCEPT !.score = @ + points,
                                     !.zombiesKilled = @ + 1]],
                 !.gs.zombies[zi].health = 0,
                 !.hist.credits[zombie.id] = @ + 1]

\* findZombieTarget: the index of the target in gameState.zombies, 0 for null
InRange(plant, zombie) ==
    LET range == PlantLookup(plant.type).data.range
    IN /\ zombie.row = plant.row
       /\ zombie.health > 0
       /\ zombie.col >= plant.col
       /\ zombie.col <= plant.col + (IF Truthy(range) THEN range ELSE 10)

\* a search that also takes the attackers behind the plant
findZombieTargetBehind(gs, plant) ==
    LET zombiesInRow ==
          {i \in 1 .. Len(gs.zombies) :
             /\ gs.zombies[i].row = plant.row
             /\ gs.zombies[i].health > 0}
    IN IF zombiesInRow = {} THEN 0
       ELSE CHOOSE i \in zombiesInRow :
              \A j \in zombiesInRow :
                 \/ gs.zombies[i].col < gs.zombies[j].col
                 \/ (gs.zombies[i].col = gs.zombies[j].col /\ i <= j)

findZombieTarget(gs, plant) ==
    LET zombiesInRow ==
          {i \in 1 .. Len(gs.zombies) : InRange(plant, gs.zombies[i])}
    IN IF zombiesInRow = {} THEN 0
       ELSE CHOOSE i \in zombiesInRow :
              \A j \in zombiesInRow :
                 \/ gs.zombies[i].col < gs.zombies[j].col
                 \/ (gs.zombies[i].col = gs.zombies[j].col /\ i <= j)

plantShoot(w, plant, t) ==
    LET plantData == PlantLookup(plant.type).data
        projectile ==
          [id |-> w.nextId, type |-> plant.type,
           x |-> plant.col * XS, y |-> plant.row,
           speed |-> IF Truthy(plantData.projectileSpeed)
                       THEN plantData.projectileSpeed ELSE 5,
           damage |-> plantData.damage,
           effects |-> IF plant.type = SNOW_PEA
                         THEN <<[type |-> "slow",
                                 strength2 |-> plantData.slowEffect2,
                                 duration |-> plantData.slowDuration]>>
                         ELSE <<>>,
           remove |-> FALSE]
    IN [w EXCEPT !.nextId = @ + 1,
                 !.gs.projectiles = Append(@, projectile)]

\* the forEach over gameState.zombies of an explosion: every zombie that
\* hit(zombie) selects loses damage, and is killed when that leaves it <= 0
RECURSIVE explode(_, _, _, _)
explode(w, zi, hit(_), damage) ==
    IF zi > Len(w.gs.zombies) THEN w
    ELSE IF hit(w.gs.zombies[zi])
      THEN LET w1 == [w EXCEPT !.gs.zombies[zi].health = JsSub(@, damage)]
           IN explode(IF JsLe(w1.gs.zombies[zi].health, 0)
                        THEN killZombie(w1, zi) ELSE w1,
                      zi + 1, hit, damage)
      ELSE explode(w, zi + 1, hit, damage)

explodeCherryBomb(w, plant) ==
    LET plantData == PlantLookup(plant.type).data
        Near(zombie) ==
          4 * ((zombie.col - plant.col) * (zombie.col - plant.col)
               + (zombie.row - plant.row) * (zombie.row - plant.row))
            <= plantData.explosionRadius4
    IN removePlant(explode(w, 1, Near, plantData.damage), plant)

explodeJalapeno(w, plant) ==
    LET plantData == PlantLookup(plant.type).data
        SameRow(zombie) == zombie.row = plant.row
    IN removePlant(explode(w, 1, SameRow, plantData.damage), plant)

updatePlantSpecialAbilities(w, plant, t) ==
    LET plantData == PlantLookup(plant.type).data
        w1 == IF plant.type = CHERRY_BOMB
                 /\ JsGe(t - plant.plantedAt, plantData.fuseTime)
                THEN explodeCherryBomb(w, plant) ELSE w
    IN IF plant.type = JALAPENO /\ JsGe(t - plant.plantedAt, plantData.fuseTime)
         THEN explodeJalapeno(w1, plant) ELSE w1

\* the callback of gameState.plants.forEach for the plant at index i
updatePlant(w, i, t) ==
    LET plant == w.gs.plants[i]
        plantData == PlantLookup(plant.type).data
        produces == /\ plant.type = SUNFLOWER
                    /\ Truthy(plantData.sunProduction)
                    /\ JsGe(t - plant.lastSunProduction, plantData.sunInterval)
        w1 == IF produces
                THEN LET paid ==
                           IF plant.ownerId \in DOMAIN w.gs.players
                             THEN [w EXCEPT
                                     !.gs.players[plant.ownerId].sun =
                                        JsAdd(@, plantData.sunProduction),
                                     !.gs.stats.totalSunCollected =
                                        @ + plantData.sunProduction]
                             ELSE w
                     IN [paid EXCEPT !.gs.plants[i].lastSunProduction = t]
                ELSE w
        target == findZombieTarget(w1.gs, plant)
        shoots == /\ Truthy(plantData.damage)
                  /\ JsGe(t - plant.lastShot, plantData.fireRate)
                  /\ target # 0
        w2 == IF shoots
                THEN [plantShoot(w1, plant, t) EXCEPT !.gs.plants[i].lastShot = t]
                ELSE w1
    IN updatePlantSpecialAbilities(
         [w2 EXCEPT !.hist.tick.visited = Append(@, plant.id)], plant, t)

\* gameState.plants.forEach: index i runs over the array as it is when the
\* index is reached, so a removal during the loop shifts the rest down
RECURSIVE updatePlantsFrom(_, _, _)
updatePlantsFrom(w, i, t) ==
    IF i > Len(w.gs.plants) THEN w
    ELSE updatePlantsFrom(updatePlant(w, i, t), i + 1, t)

updatePlants(w, t) == updatePlantsFrom(w, 1, t)

----------------------------------------------------------------------------
(* Zombies, lawn mowers, projectiles *)

\* the switch on zombie.type in updateZombies: columns per second, in
\* millionths of a column per millisecond
zombieSpeed(type) ==
    CASE type = BASIC      -> 100
      [] type = CONEHEAD   -> 80
      [] type = BUCKETHEAD -> 50
      [] type = RUNNER     -> 200
      [] type = VAULTER    -> 150
      [] type = BALLOON    -> 120
      [] type = BOSS       -> 60
      [] OTHER             -> 100

RECURSIVE killRow(_, _, _)
killRow(w, row, zi) ==
    IF zi > Len(w.gs.zombies) THEN w
    ELSE IF w.gs.zombies[zi].row = row /\ w.gs.zombies[zi].health > 0
      THEN killRow(killZombie(w, zi), row, zi + 1)
      ELSE killRow(w, row, zi + 1)

\* a mower that runs again for every attacker that reaches the edge
triggerLawnMowerAgain(w, row) ==
    IF w.gs.lawnMowers[row].active
      THEN killRow([w EXCEPT !.gs.lawnMowers[row].triggered = TRUE], row, 1)
      ELSE w

triggerLawnMower(w, row) ==
    LET lawnMower == w.gs.lawnMowers[row]
    IN IF lawnMower.active /\ ~lawnMower.triggered
         THEN killRow([w EXCEPT !.gs.lawnMowers[row].triggered = TRUE], row, 1)
         ELSE w

\* updateZombieEffects(zombie, now): expired effects go, a slow effect that
\* stays multiplies zombie.speed by its strength (strength2 / 2)
RECURSIVE slowed(_, _, _)
slowed(zombie, effects, t) ==
    IF effects = <<>> THEN [zombie EXCEPT !.effects = <<>>]
    ELSE LET effect == Head(effects)
             rest == slowed(zombie, Tail(effects), t)
         IN IF effect.endTime <= t THEN rest
            ELSE [rest EXCEPT
                    !.effects = <<effect>> \o @,
                    !.speed = IF effect.type = "slow"
                                THEN @ * effect.strength2 ELSE @,
                    !.speedDen = IF effect.type = "slow" THEN @ * 2 ELSE @]

updateZombieEffects(w, zi, t) ==
    [w EXCEPT !.gs.zombies[zi] = slowed(@, @.effects, t)]

\* history: what an attacker's arrival at the edge of its row did
NoteEdge(before, after, zi) ==
    LET row == before.gs.zombies[zi].row
        Credits(x) == x.hist.credits
    IN [after EXCEPT !.hist.tick.edge = Append(@,
          [row |-> row,
           wasTriggered |-> before.gs.lawnMowers[row].triggered,
           isTriggered |-> after.gs.lawnMowers[row].triggered,
           credited |-> {id \in DOMAIN Credits(after) :
                           Credits(after)[id] # Credits(before)[id]},
           scoreChanged |-> after.gs.players # before.gs.players,
           othersHit |-> {j \in 1 .. Len(before.gs.zombies) :
                            /\ j # zi
                            /\ after.gs.zombies[j].health
                                 # before.gs.zombies[j].health},
           rowAlive |-> {j \in 1 .. Len(after.gs.zombies) :
                           /\ after.gs.zombies[j].row = row
                           /\ after.gs.zombies[j].health > 0}])]

\* the callback of gameState.zombies.forEach for the zombie at index zi;
\* deltaMs is deltaTime in milliseconds
updateZombie(w, zi, deltaMs, t) ==
    LET zombie == w.gs.zombies[zi]
        zombieData == ZOMBIES[zombie.type]
        plantId == w.gs.board[<<zombie.row, zombie.x \div XS>>].plant
        pi == PlantIndex(w.gs, plantId)
    IN
    IF zombie.health <= 0 THEN w
    ELSE IF zombie.x \div XS >= COLS
      THEN \* board[row][Math.floor(x)] is undefined: ".plant" throws
        [w EXCEPT !.thrown = TRUE]
    ELSE
      LET acted ==
            IF plantId # 0 /\ 2 * Abs(zombie.x - w.gs.plants[pi].col * XS) < XS
              THEN \* attack the plant
                IF t - zombie.lastAttack >= zombieData.attackRate
                  THEN LET bitten ==
                             [w EXCEPT !.gs.plants[pi].health =
                                           JsSub(@, zombieData.damage),
                                       !.gs.zombies[zi].lastAttack = t]
                       IN IF JsLe(bitten.gs.plants[pi].health, 0)
                            THEN removePlant(bitten, bitten.gs.plants[pi])
                            ELSE bitten
                  ELSE w
              ELSE \* move towards the house
                LET x == zombie.x - zombieSpeed(zombie.type) * deltaMs
                    moved == [w EXCEPT !.gs.zombies[zi].x = x,
                                       !.gs.zombies[zi].col = x \div XS]
                IN IF x <= 0
                     THEN NoteEdge(moved,
                            [triggerLawnMower(moved, zombie.row)
                               EXCEPT !.gs.zombies[zi].health = 0], zi)
                     ELSE moved
      IN updateZombieEffects(acted, zi, t)

RECURSIVE updateZombiesFrom(_, _, _, _)
updateZombiesFrom(w, zi, deltaMs, t) ==
    IF zi > Len(w.gs.zombies) \/ w.thrown THEN w
    ELSE updateZombiesFrom(updateZombie(w, zi, deltaMs, t), zi + 1, deltaMs, t)

\* deltaTime = lastUpdate ? (now - lastUpdate) / 1000 : 0.016
updateZombies(w, t) ==
    updateZombiesFrom(w, 1,
        IF Truthy(w.gs.lastUpdate) THEN t - w.gs.lastUpdate ELSE 16, t)

\* projectile.x += projectile.speed * 0.016
updateProjectiles(w, t) ==
    [w EXCEPT !.gs.projectiles =
       [i \in DOMAIN @ |->
          LET x == @[i].x + @[i].speed * 16000
          IN [@[i] EXCEPT !.x = x,
                          !.remove = IF x > COLS * XS THEN TRUE ELSE @]]]

RECURSIVE applyEffects(_, _, _)
applyEffects(zombie, effects, t) ==
    IF effects = <<>> THEN zombie
    ELSE applyEffects(
           [zombie EXCEPT !.effects = Append(@,
              [type |-> Head(effects).type,
               strength2 |-> Head(effects).strength2,
               endTime |-> t + Head(effects).duration])],
           Tail(effects), t)

\* a projectile that flies on through what it hits
collideThrough(w, pi, t) ==
    LET projectile == w.gs.projectiles[pi]
        hits == {zi \in 1 .. Len(w.gs.zombies) :
                   /\ w.gs.zombies[zi].health > 0
                   /\ 2 * Abs(w.gs.zombies[zi].x - projectile.x) < XS
                   /\ w.gs.zombies[zi].row = projectile.y}
    IN IF projectile.remove \/ hits = {} THEN w
       ELSE
         LET zi == CHOOSE i \in hits : \A j \in hits : i <= j
             hit == [w EXCEPT
                       !.gs.zombies[zi] =
                          applyEffects(
                            [@ EXCEPT !.health = JsSub(@, projectile.damage)],
                            projectile.effects, t)]
         IN IF JsLe(hit.gs.zombies[zi].health, 0)
              THEN killZombie(hit, zi) ELSE hit

\* the callback of gameState.projectiles.forEach in checkCollisions
collide(w, pi, t) ==
    LET projectile == w.gs.projectiles[pi]
        hits == {zi \in 1 .. Len(w.gs.zombies) :
                   /\ w.gs.zombies[zi].health > 0
                   /\ 2 * Abs(w.gs.zombies[zi].x - projectile.x) < XS
                   /\ w.gs.zombies[zi].row = projectile.y}
    IN IF projectile.remove \/ hits = {} THEN w
       ELSE
         LET zi == CHOOSE i \in hits : \A j \in hits : i <= j
             hit == [w EXCEPT
                       !.gs.zombies[zi] =
                          applyEffects(
                            [@ EXCEPT !.health = JsSub(@, projectile.damage)],
                            projectile.effects, t),
                       !.gs.projectiles[pi].remove = TRUE]
         IN IF JsLe(hit.gs.zombies[zi].health, 0)
              THEN killZombie(hit, zi) ELSE hit

RECURSIVE checkCollisionsFrom(_, _, _)
checkCollisionsFrom(w, pi, t) ==
    IF pi > Len(w.gs.projectiles) THEN w
    ELSE checkCollisionsFrom(collide(w, pi, t), pi + 1, t)

checkCollisions(w, t) == checkCollisionsFrom(w, 1, t)

\* a cleanup that leaves the dead attackers in the list
cleanupEntitiesKeepingDead(w, t) ==
    [w EXCEPT !.gs.projectiles = SelectSeq(@, LAMBDA projectile : ~projectile.remove),
              !.gs.activeEffects = SelectSeq(@, LAMBDA effect : effect.endTime > t)]

\* updateEffects only marks what cleanupEntities then drops
cleanupEntities(w, t) ==
    [w EXCEPT !.gs.zombies = SelectSeq(@, LAMBDA zombie : zombie.health > 0),
              !.gs.projectiles = SelectSeq(@, LAMBDA projectile : ~projectile.remove),
              !.gs.activeEffects = SelectSeq(@, LAMBDA effect : effect.endTime > t)]

----------------------------------------------------------------------------
(* End of the game *)

\* Math.floor of (score + survivalTime * SURVIVAL_BONUS_PER_SECOND
\* + plantsPlaced * PLANT_EFFICIENCY_BONUS) [* MULTIPLAYER_BONUS]
calculateFinalScore(gs, player) ==
    LET survivalMs == gs.endTime - gs.stats.gameStartTime
        score1000 == 1000 * player.score + survivalMs * 1
                     + 1000 * player.plantsPlaced * 5
    IN IF Cardinality(DOMAIN gs.players) > 1
         THEN (score1000 * 3) \div 2000
         ELSE score1000 \div 1000

\* an end of the game that does not record how it ended
endGameUnrecorded(w, result, t) ==
    LET ended == [w EXCEPT !.gs.status = "ended", !.gs.endTime = t]
        scored == [ended EXCEPT !.gs.players =
                     [p \in DOMAIN @ |->
                        [@[p] EXCEPT !.finalScore =
                            calculateFinalScore(ended.gs, ended.gs.players[p])]]]
    IN Publish([stopGameLoop(scored) EXCEPT !.hist.ends = @ + 1],
               "game_ended", result)

endGame(w, result, t) ==
    LET ended == [w EXCEPT !.gs.status = "ended",
                           !.gs.result = result,
                           !.gs.endTime = t]
        scored == [ended EXCEPT !.gs.players =
                     [p \in DOMAIN @ |->
                        [@[p] EXCEPT !.finalScore =
                            calculateFinalScore(ended.gs, ended.gs.players[p])]]]
    IN Publish([stopGameLoop(scored) EXCEPT !.hist.ends = @ + 1],
               "game_ended", result)

\* an end check that gives up as soon as one mower has been used
checkGameEndAnyMower(w, t) ==
    IF /\ w.gs.currentWave >= NumWaves
       /\ Len(w.gs.zombies) = 0
       /\ ~w.gs.waveInProgress
      THEN endGame(w, "victory", t)
    ELSE IF \E row \in Rows :
              ~(w.gs.lawnMowers[row].active /\ ~w.gs.lawnMowers[row].triggered)
      THEN endGame(w, "defeat", t)
    ELSE w

\* an end check that takes the last wave for passed when it is reached
checkGameEndOneWaveEarly(w, t) ==
    IF /\ w.gs.currentWave >= NumWaves - 1
       /\ Len(w.gs.zombies) = 0
       /\ ~w.gs.waveInProgress
      THEN endGame(w, "victory", t)
    ELSE IF \A row \in Rows :
              ~(w.gs.lawnMowers[row].active /\ ~w.gs.lawnMowers[row].triggered)
      THEN endGame(w, "defeat", t)
    ELSE w

checkGameEnd(w, t) ==
    IF /\ w.gs.currentWave >= NumWaves
       /\ Len(w.gs.zombies) = 0
       /\ ~w.gs.waveInProgress
      THEN endGame(w, "victory", t)
    ELSE IF \A row \in Rows :
              ~(w.gs.lawnMowers[row].active /\ ~w.gs.lawnMowers[row].triggered)
      THEN endGame(w, "defeat", t)
    ELSE w

----------------------------------------------------------------------------
(* The game loop *)

spawnSun(w) ==
    [w EXCEPT !.gs.players =
                 [p \in DOMAIN @ |->
                    [@[p] EXCEPT !.sun = JsAdd(@, SUN_FALL_AMOUNT)]],
              !.gs.stats.totalSunCollected =
                 @ + SUN_FALL_AMOUNT * Cardinality(DOMAIN w.gs.players)]

\* what the properties read of one call of updateGame
NoTick ==
    [ran |-> FALSE, updated |-> FALSE, checked |-> FALSE, complete |-> FALSE,
     zombiesAtCheck |-> 0, waveAtCheck |-> 0, effectiveAtCheck |-> 0,
     edge |-> <<>>, visited |-> <<>>]

\* a start of the next wave that does not wait for nextWaveTime
beginWaveAtOnce(w, t) ==
    IF /\ ~w.gs.waveInProgress
       /\ w.gs.currentWave < NumWaves
       /\ startWave(w, w.gs.currentWave, t).started
      THEN Publish([startWave(w, w.gs.currentWave, t).w
                      EXCEPT !.gs.waveInProgress = TRUE, !.hasUpdates = TRUE],
                   "wave_started", w.gs.currentWave + 1)
      ELSE w

\* updateGame: a wave starts when none is in progress and its time has come
beginWave(w, t) ==
    IF /\ ~w.gs.waveInProgress
       /\ t >= w.gs.nextWaveTime
       /\ w.gs.currentWave < NumWaves
       /\ startWave(w, w.gs.currentWave, t).started
      THEN Publish([startWave(w, w.gs.currentWave, t).w
                      EXCEPT !.gs.waveInProgress = TRUE, !.hasUpdates = TRUE],
                   "wave_started", w.gs.currentWave + 1)
      ELSE w

\* history: what isWaveComplete saw and answered in this call
NoteCheck(w, t) ==
    [w EXCEPT !.hist.tick.updated = TRUE,
              !.hist.tick.checked = TRUE,
              !.hist.tick.complete = isWaveComplete(w, t),
              !.hist.tick.zombiesAtCheck = Len(w.gs.zombies),
              !.hist.tick.waveAtCheck = w.wm.currentWaveIndex,
              !.hist.tick.effectiveAtCheck =
                 EffectiveElapsed(w.hist, w.wm.currentWaveIndex, t)]

\* a completion that counts the wave twice
completeWaveSkipping(w, t) ==
    IF isWaveComplete(w, t)
      THEN Publish([NoteCheck(w, t) EXCEPT
                      !.gs.waveInProgress = FALSE,
                      !.gs.currentWave = @ + 2,
                      !.gs.nextWaveTime = t + PREPARATION_TIME],
                   "wave_completed", w.gs.currentWave)
      ELSE NoteCheck(w, t)

\* updateGame: the wave in progress is completed when the manager says so
completeWave(w, t) ==
    IF isWaveComplete(w, t)
      THEN Publish([NoteCheck(w, t) EXCEPT
                      !.gs.waveInProgress = FALSE,
                      !.gs.currentWave = @ + 1,
                      !.gs.nextWaveTime = t + PREPARATION_TIME],
                   "wave_completed", w.gs.currentWave)
      ELSE NoteCheck(w, t)

\* updateGame: the wave in progress is updated, then asked whether it is over
playWave(w, t) ==
    IF ~w.gs.waveInProgress THEN w ELSE completeWave(update(w, t), t)

\* "Wave management with Wave Manager" of updateGame
manageWaves(w, t) ==
    IF ~w.wm.exists THEN w ELSE playWave(beginWave(w, t), t)

\* updateGame: sun falls for every player when the timer is due
fallSun(w, t) ==
    IF t >= w.gs.sunFallTimer
      THEN [spawnSun(w) EXCEPT !.gs.sunFallTimer = t + SUN_FALL_INTERVAL,
                               !.hasUpdates = TRUE]
      ELSE w

\* updateGame after updateZombies, up to checkGameEnd; nothing of it runs
\* when updateZombies has thrown
afterZombies(w, t) ==
    IF w.thrown THEN w
    ELSE checkGameEnd(
           cleanupEntities(checkCollisions(updateProjectiles(w, t), t), t), t)

\* updateGame after its wave management, up to checkGameEnd
afterWaves(w, t) == afterZombies(updateZombies(updatePlants(w, t), t), t)

\* updateGame from its guard to checkGameEnd: what one callback does to the
\* session in memory
playTick(w, t) ==
    afterWaves(manageWaves(fallSun([w EXCEPT !.hist.tick.ran = TRUE], t), t), t)

\* updateGame: the condition under which the state is saved and broadcast
NeedsSave(w) ==
    \/ w.hasUpdates
    \/ Len(w.gs.plants) > 0
    \/ Len(w.gs.zombies) > 0
    \/ Len(w.gs.projectiles) > 0

\* updateGame: the state is saved and broadcast when something is going on
saveAndPublish(w, t) ==
    IF w.thrown THEN stopGameLoop(w)  \* the catch of the timer callback
    ELSE
    IF \/ w.hasUpdates
       \/ Len(w.gs.plants) > 0
       \/ Len(w.gs.zombies) > 0
       \/ Len(w.gs.projectiles) > 0
      THEN Publish(saveGameState([w EXCEPT !.gs.lastUpdate = t]),
                   "game_update", 0)
      ELSE w

\* a callback that takes a paused session for one in play
updateLoadedWhilePaused(w, t) ==
    IF ~w.games \/ w.gs.status \notin {"playing", "paused"} THEN w
    ELSE saveAndPublish(playTick(w, t), t)

\* updateGame once the session has been looked up
updateLoaded(w, t) ==
    IF ~w.games \/ w.gs.status # "playing" THEN w
    ELSE saveAndPublish(playTick(w, t), t)

\* updateGame: a session that is not in memory is looked up in Redis and
\* taken back when it was saved as playing, with a new wave manager that
\* starts its wave again when one was in progress
reloadGame(w, t) ==
    IF w.games \/ ~Saved(w) \/ w.redis.status # "playing" THEN w
    ELSE IF w.redis.waveInProgress /\ w.redis.currentWave > 0
      THEN startWave([loadGame(w) EXCEPT !.wm = NewWaveManager],
                     w.redis.currentWave - 1, t).w
      ELSE loadGame(w)

updateGame(w, t) == updateLoaded(reloadGame(w, t), t)

\* a new process: the maps of the engine are empty, Redis is as it was
restarted(w) ==
    [w EXCEPT !.games = FALSE, !.wm = NoWaveManager, !.loops = FALSE,
              !.pending = <<>>]

\* reloadActiveGames(): a session saved as playing is taken into memory,
\* with a new wave manager that starts the wave before currentWave when a
\* wave was in progress and currentWave > 0, and its timer is set
reloadActiveGames(w, t) ==
    IF ~Saved(w) \/ w.redis.status # "playing" THEN w
    ELSE IF w.redis.waveInProgress /\ w.redis.currentWave > 0
      THEN startGameLoop(
             startWave([loadGame(w) EXCEPT !.wm = NewWaveManager],
                       w.redis.currentWave - 1, t).w)
      ELSE startGameLoop(loadGame(w))

\* the end of updateGame when redis.saveGameState rejects: lastUpdate is
\* already assigned, the await throws, nothing is saved or published, and the
\* catch of the timer callback calls stopGameLoop
saveRejected(w, t) ==
    IF NeedsSave(w) THEN stopGameLoop([w EXCEPT !.gs.lastUpdate = t]) ELSE w

\* updateGame up to "await this.publishWaveStarted(...)"
untilWaveStarted(w, t) ==
    beginWave(fallSun([w EXCEPT !.hist.tick.ran = TRUE], t), t)

\* updateGame up to "await this.redis.publishGameUpdate(gameId,
\* 'wave_completed', ...)"
untilWaveCompleted(w, t) ==
    manageWaves(fallSun([w EXCEPT !.hist.tick.ran = TRUE], t), t)

\* the callback waits at an await: its locals now and hasUpdates wait with it
parked(w, at, t) ==
    [w EXCEPT !.pending =
        Append(@, [at |-> at, now |-> t, hasUpdates |-> w.hasUpdates])]

\* updateGame from its start to the await of a publish that it reaches in
\* its wave management, while the reply of Redis is outstanding; a callback
\* that reaches none there is left to run as a whole
suspendGame(w, t) ==
    IF ~w.games \/ w.gs.status # "playing" \/ ~w.wm.exists THEN w
    ELSE IF ~w.gs.waveInProgress /\ untilWaveStarted(w, t).gs.waveInProgress
      THEN parked(untilWaveStarted(w, t), "wave_started", t)
    ELSE IF w.gs.waveInProgress /\ ~untilWaveCompleted(w, t).gs.waveInProgress
      THEN parked(untilWaveCompleted(w, t), "wave_completed", t)
    ELSE w

\* the callback that has waited longest, with its locals back
awake(w) ==
    [w EXCEPT !.pending = Tail(@), !.hasUpdates = Head(w.pending).hasUpdates]

\* the rest of updateGame once the awaited publish has resolved
continueGame(w) ==
    IF Head(w.pending).at = "wave_started"
      THEN saveAndPublish(
             afterWaves(playWave(awake(w), Head(w.pending).now),
                        Head(w.pending).now),
             Head(w.pending).now)
      ELSE saveAndPublish(afterWaves(awake(w), Head(w.pending).now),
                          Head(w.pending).now)

\* the timer callback of startGameLoop while Redis rejects every save
callbackSaveRejected(w, t) ==
    IF ~w.games \/ w.gs.status # "playing" THEN w
    ELSE saveRejected(playTick(w, t), t)

----------------------------------------------------------------------------
(* Power-ups, leaving, pausing *)

applyPowerupEffect(w, playerId, powerupData, t) ==
    CASE powerupData.effect = "sun" ->
           [w EXCEPT !.gs.players[playerId].sun = JsAdd(@, powerupData.amount)]
      [] powerupData.effect = "speed" ->
           [w EXCEPT !.gs.activeEffects = Append(@,
              [type |-> "speed_boost", playerId |-> playerId,
               endTime |-> t + powerupData.duration])]
      [] powerupData.effect = "shield" ->
           [w EXCEPT !.gs.activeEffects = Append(@,
              [type |-> "plant_shield", playerId |-> playerId,
               endTime |-> t + powerupData.duration])]
      [] powerupData.effect = "damage" ->
           [w EXCEPT !.gs.activeEffects = Append(@,
              [type |-> "damage_boost", playerId |-> playerId,
               endTime |-> t + powerupData.duration])]
      [] OTHER -> w

\* a use that does not note when it was made
usePowerupUnrecorded(w, playerId, powerupType, t) ==
    LET powerupLookup == PowerupLookup(powerupType)
        powerupData == powerupLookup.data
    IN
    IF ~w.games \/ w.gs.status # "playing" THEN Throw(w, "Invalid game state")
    ELSE IF playerId \notin DOMAIN w.gs.players THEN Throw(w, "Player not found")
    ELSE IF ~powerupLookup.found THEN Throw(w, "Invalid powerup type")
    ELSE IF JsLt(JsSub(t, w.gs.players[playerId].powerups[powerupType]),
                 powerupData.cooldown)
      THEN Throw(w, "Powerup on cooldown")
    ELSE Ok(saveGameState(applyPowerupEffect(w, playerId, powerupData, t)))

usePowerup(w, playerId, powerupType, t) ==
    LET powerupLookup == PowerupLookup(powerupType)
        powerupData == powerupLookup.data
    IN
    IF ~w.games \/ w.gs.status # "playing" THEN Throw(w, "Invalid game state")
    ELSE IF playerId \notin DOMAIN w.gs.players THEN Throw(w, "Player not found")
    ELSE IF ~powerupLookup.found THEN Throw(w, "Invalid powerup type")
    ELSE IF JsLt(JsSub(t, w.gs.players[playerId].powerups[powerupType]),
                 powerupData.cooldown)
      THEN Throw(w, "Powerup on cooldown")
    ELSE Ok(saveGameState(
              [applyPowerupEffect(w, playerId, powerupData, t)
                 EXCEPT !.gs.players[playerId].powerups[powerupType] = t]))

removePlayer(w, playerId) ==
    IF ~w.games THEN w
    ELSE
      LET left == [w EXCEPT !.gs.players =
                     [p \in (DOMAIN @) \ {playerId} |-> @[p]]]
      IN IF DOMAIN left.gs.players = {}
           THEN [stopGameLoop(left) EXCEPT !.games = FALSE]
           ELSE saveGameState(left)

\* pauseGame(gameId, playerId) answers {success, message}
pauseGame(w, playerId, t) ==
    IF ~w.games THEN Throw(w, "Game not found")
    ELSE IF playerId \notin DOMAIN w.gs.players THEN Throw(w, "Player not found")
    ELSE IF w.gs.status # "playing" THEN Throw(w, "Game is not in progress")
    ELSE Ok(Publish([w EXCEPT !.gs.status = "paused", !.gs.pausedAt = t],
                    "game_paused", playerId))

\* a timestamp that has been set moves on by the time spent paused
Shifted(stamp, d) == IF Truthy(stamp) THEN stamp + d ELSE stamp

\* WaveManager.resume(pauseDuration)
resume(wm, d) ==
    [wm EXCEPT !.waveStartTime = Shifted(@, d),
               !.hordeEndTime = Shifted(@, d),
               !.lastHordeSpawn = Shifted(@, d)]

\* resumeGame(gameId, playerId) answers {success, message}
resumeGame(w, playerId, t) ==
    IF ~w.games THEN Throw(w, "Game not found")
    ELSE IF playerId \notin DOMAIN w.gs.players THEN Throw(w, "Player not found")
    ELSE IF w.gs.status # "paused" THEN Throw(w, "Game is not paused")
    ELSE
      LET d == t - w.gs.pausedAt
      IN Ok(Publish(
           [w EXCEPT
              !.gs.status = "playing",
              !.gs.nextWaveTime = Shifted(@, d),
              !.gs.sunFallTimer = Shifted(@, d),
              !.gs.lastUpdate = Shifted(@, d),
              !.gs.plants =
                 [i \in DOMAIN @ |->
                    [@[i] EXCEPT !.lastShot = Shifted(@, d),
                                 !.lastSunProduction = Shifted(@, d),
                                 !.plantedAt = Shifted(@, d)]],
              !.gs.zombies =
                 [i \in DOMAIN @ |->
                    [@[i] EXCEPT
                       !.lastAttack = Shifted(@, d),
                       !.effects = [j \in DOMAIN @ |->
                                      [@[j] EXCEPT !.endTime = Shifted(@, d)]]]],
              !.gs.activeEffects =
                 [i \in DOMAIN @ |-> [@[i] EXCEPT !.endTime = Shifted(@, d)]],
              !.gs.players =
                 [p \in DOMAIN @ |->
                    [@[p] EXCEPT !.powerups =
                       [u \in DOMAIN @ |-> Shifted(@[u], d)]]],
              !.wm = IF @.exists THEN resume(@, d) ELSE @],
           "game_resumed", playerId))

----------------------------------------------------------------------------
(* The state machine *)

\* Date.now() when the engine is constructed
EPOCH == 1000 * 1000

\* The bounds of the model.
TickMs == 13000       \* the time between two callbacks of the game loop
MaxTicks == 8         \* callbacks run
MaxSeed == 0          \* states the random generator may start in
MaxCommands == 2      \* commands the players send to a started session
MaxCampaignTicks == 75 \* callbacks run in a session played to its end
WaveTicks == 20       \* callbacks within which a wave started is over
MaxIdle == 1          \* periods that pass in the lobby and in one pause
MaxLobbyTicks == 2    \* callbacks made to a session started from the lobby
MaxGardenTicks == 6   \* callbacks run in a session defended with bombs
MaxBombs == 3         \* plants placed in a session defended with bombs
FrostMs == 1000       \* a timer period shorter than a slow effect lasts
MaxOverlapTicks == 30 \* callbacks run in a session whose publishes are slow
MaxOverlap == 1       \* callbacks that wait at an await at the same time
LullMs == 7000        \* period of the timer of a session nobody plants in
MaxLullTicks == 60    \* callbacks run in that session
MaxFrostTicks == 62   \* callbacks run in a session defended with a Snow Pea

EventIds ==
    UNION {{<<k, i>> : i \in 0 .. (Len(WAVES[k + 1].timeline) - 1)} :
             k \in 0 .. (NumWaves - 1)}

NoHistory ==
    [fired |-> [e \in EventIds |-> 0],
     firedAt |-> [e \in EventIds |-> 0],
     waveStart |-> [k \in 0 .. (NumWaves - 1) |-> [at |-> 0, paused |-> 0]],
     starts |-> [k \in 0 .. (NumWaves - 1) |-> 0],
     used |-> [pu \in PlayerIds \X PowerupNames |-> 0],
     pausedTotal |-> 0,
     credits |-> <<>>,
     ends |-> 0,
     ticks |-> 0, idle |-> 0, cmds |-> 0,
     tick |-> NoTick]

NoCall == [op |-> "none", result |-> "ok", playerId |-> "", type |-> "",
           row |-> 0, col |-> 0]

Call(op, result, playerId, type, row, col) ==
    [op |-> op, result |-> result, playerId |-> playerId, type |-> type,
     row |-> row, col |-> col]

\* the engine as the methods see it
World ==
    [gs |-> gameState, wm |-> waveManager, games |-> games, redis |-> redis,
     loops |-> gameLoops, rng |-> rng, nextId |-> nextId,
     pub |-> <<>>, hasUpdates |-> FALSE, pending |-> pending, thrown |-> FALSE,
     hist |-> [hist EXCEPT !.tick = NoTick]]

Commit(w, call) ==
    /\ gameState' = w.gs
    /\ waveManager' = w.wm
    /\ games' = w.games
    /\ redis' = w.redis
    /\ gameLoops' = w.loops
    /\ rng' = w.rng
    /\ nextId' = w.nextId
    /\ published' = w.pub
    /\ pending' = w.pending
    /\ hist' = w.hist
    /\ lastCall' = call

\* one more command has reached the started session
Sent(w) == [w EXCEPT !.hist.cmds = @ + 1]

Init ==
    /\ now = EPOCH
    /\ period = TickMs
    /\ rng \in [cur : 0 .. MaxSeed, step : {0, 1}]
    /\ games = FALSE
    /\ redis = NoGameState
    /\ gameLoops = FALSE
    /\ gameState = NoGameState
    /\ waveManager = NoWaveManager
    /\ nextId = 1
    /\ published = <<>>
    /\ pending = <<>>
    /\ lastCall = NoCall
    /\ hist = NoHistory

\* the timer of startGameLoop is set and has one of its n callbacks to make
TimerSet(n) ==
    /\ gameLoops
    /\ hist.ticks < n
    /\ gameState.status = "paused" => hist.idle < MaxIdle

\* the setInterval callback of startGameLoop, run at most n times
TickWithin(n) ==
    /\ TimerSet(n)
    /\ now' = now + period
    /\ LET w == updateGame(World, now')
           paused == gameState.status = "paused"
       IN Commit([w EXCEPT !.hist.ticks = @ + 1,
                           !.hist.idle = IF paused THEN @ + 1 ELSE @,
                           !.hist.pausedTotal = IF paused THEN @ + period ELSE @],
                 Call("updateGame", "ok", "", "", 0, 0))
    /\ UNCHANGED period

Tick == TickWithin(MaxTicks)

\* time passes while no game loop runs
Wait ==
    /\ ~gameLoops
    /\ games
    /\ gameState.status = "waiting"
    /\ hist.idle < MaxIdle
    /\ now' = now + period
    /\ Commit([World EXCEPT !.hist.idle = @ + 1], Call("wait", "ok", "", "", 0, 0))
    /\ UNCHANGED period

CreateGame ==
    \E hostPlayerId \in {"alice"} :
       /\ ~games
       /\ gameState.status = "none"
       /\ Commit(createGame(World, hostPlayerId, now).w,
                 Call("createGame", "ok", hostPlayerId, "", 0, 0))
       /\ UNCHANGED <<now, period>>

StartGame ==
    \E playerId \in PlayerIds :
       LET r == startGame(World, playerId, now)
       IN /\ r.result = "ok"
          /\ Commit([r.w EXCEPT !.hist.idle = 0],
                    Call("startGame", r.result, playerId, "", 0, 0))
          /\ UNCHANGED <<now, period>>

\* a join that is refused is a step when it has brought the session back
\* into memory
JoinGame ==
    \E playerId \in PlayerIds :
       LET r == joinGame(World, playerId, now)
       IN /\ r.result = "ok" \/ r.w.games # games
          /\ Commit(r.w, Call("joinGame", r.result, playerId, "", 0, 0))
          /\ UNCHANGED <<now, period>>

\* the plant types and cells the players of the model ask for
PlacedTypes == {SUNFLOWER, PEASHOOTER, JALAPENO, "constructor"}
PlacedCells == {<<0, 1>>, <<0, 5>>}

PlacePlant ==
    \E playerId \in PlayerIds, plantType \in PlacedTypes, cell \in PlacedCells :
       LET r == placePlant(World, playerId, plantType, cell[1], cell[2], now)
       IN /\ hist.cmds < MaxCommands
          /\ r.result = "ok"
          /\ Commit(Sent(r.w), Call("placePlant", r.result, playerId, plantType,
                              cell[1], cell[2]))
          /\ UNCHANGED <<now, period>>

UsedPowerups == {SUN_BOOST, SPEED_BOOST}

UsePowerup ==
    \E playerId \in PlayerIds, powerupType \in UsedPowerups :
       LET r == usePowerup(World, playerId, powerupType, now)
       IN /\ hist.cmds < MaxCommands
          /\ r.result = "ok"
          /\ Commit(Sent([r.w EXCEPT
                            !.hist.used[<<playerId, powerupType>>] = now]),
                    Call("usePowerup", r.result, playerId, powerupType, 0, 0))
          /\ UNCHANGED <<now, period>>

RemovePlayer ==
    \E playerId \in PlayerIds :
       /\ games
       /\ playerId \in DOMAIN gameState.players
       /\ gameState.status # "waiting" => hist.cmds < MaxCommands
       /\ Commit(IF gameState.status = "waiting"
                 THEN removePlayer(World, playerId)
                 ELSE Sent(removePlayer(World, playerId)),
                 Call("removePlayer", "ok", playerId, "", 0, 0))
       /\ UNCHANGED <<now, period>>

PauseGame ==
    \E playerId \in PlayerIds :
       LET r == pauseGame(World, playerId, now)
       IN /\ hist.cmds < MaxCommands
          /\ r.result = "ok"
          /\ Commit(Sent([r.w EXCEPT !.hist.idle = 0]),
                    Call("pauseGame", r.result, playerId, "", 0, 0))
          /\ UNCHANGED <<now, period>>

ResumeGame ==
    \E playerId \in PlayerIds :
       LET r == resumeGame(World, playerId, now)
       IN /\ hist.cmds < MaxCommands
          /\ r.result = "ok"
          /\ Commit(Sent(r.w), Call("resumeGame", r.result, playerId, "", 0, 0))
          /\ UNCHANGED <<now, period>>

Next ==
    \/ CreateGame \/ JoinGame \/ StartGame \/ Wait \/ Tick
    \/ PlacePlant \/ UsePowerup \/ RemovePlayer \/ PauseGame \/ ResumeGame

Spec == Init /\ [][Next]_vars

\* A session of one player that is played to its end: the host starts the
\* game and lets the loop run, pausing and resuming it now and then.
CampaignTick == TickWithin(MaxCampaignTicks)

CampaignNext ==
    \/ CreateGame \/ StartGame \/ CampaignTick \/ PauseGame \/ ResumeGame

SpecCampaign == Init /\ [][CampaignNext]_vars

\* The timer keeps calling back while it is set.  The callback is the only
\* step of SpecCampaign that moves the clock, so the steps of TimerFires
\* are the steps of CampaignTick.
TimerFires == TimerSet(MaxCampaignTicks) /\ now' = now + period

FairCampaign == SpecCampaign /\ WF_now(TimerFires)

\* A lobby that more players want to join than a session takes: they come
\* and go, the host starts the game, and the loop runs for a little while.
LobbyIds == {"alice", "bob", "carol", "dave", "erin"}

LobbyJoin ==
    \E playerId \in LobbyIds :
       LET r == joinGame(World, playerId, now)
       IN /\ r.result = "ok" \/ r.w.games # games
          /\ Commit(r.w, Call("joinGame", r.result, playerId, "", 0, 0))
          /\ UNCHANGED <<now, period>>

LobbyLeave ==
    \E playerId \in LobbyIds :
       /\ games
       /\ playerId \in DOMAIN gameState.players
       /\ Commit(removePlayer(World, playerId),
                 Call("removePlayer", "ok", playerId, "", 0, 0))
       /\ UNCHANGED <<now, period>>

LobbyStart ==
    \E playerId \in LobbyIds :
       LET r == startGame(World, playerId, now)
       IN /\ r.result = "ok"
          /\ Commit(r.w, Call("startGame", r.result, playerId, "", 0, 0))
          /\ UNCHANGED <<now, period>>

LobbyTick == TickWithin(MaxLobbyTicks)

LobbyNext == CreateGame \/ LobbyJoin \/ LobbyLeave \/ LobbyStart \/ LobbyTick

SpecLobby == Init /\ [][LobbyNext]_vars

\* A campaign during which Redis may be out of reach: any callback of the
\* timer may find its save rejected.
RejectedTick ==
    /\ TimerSet(MaxCampaignTicks)
    /\ gameState.status = "playing"
    /\ now' = now + period
    /\ LET w == callbackSaveRejected(World, now')
       IN Commit([w EXCEPT !.hist.ticks = @ + 1],
                 Call("updateGame",
                      IF w.gs.lastUpdate = now' THEN "save rejected" ELSE "ok",
                      "", "", 0, 0))
    /\ UNCHANGED period

OutageNext ==
    \/ CreateGame \/ StartGame \/ CampaignTick \/ PauseGame \/ ResumeGame
    \/ RejectedTick

SpecOutage == Init /\ [][OutageNext]_vars

\* Two players who wait for the first wave and defend the lawn with Cherry
\* Bombs and Jalapenos, a Sunflower among them.
GardenTypes == {CHERRY_BOMB, JALAPENO, SUNFLOWER}
GardenCells == {<<0, 6>>, <<0, 7>>, <<1, 7>>}

GardenJoin ==
    LET r == joinGame(World, "bob", now)
    IN /\ r.result = "ok"
       /\ Commit(r.w, Call("joinGame", r.result, "bob", "", 0, 0))
       /\ UNCHANGED <<now, period>>

GardenPlant ==
    \E playerId \in PlayerIds, plantType \in GardenTypes, cell \in GardenCells :
       LET r == placePlant(World, playerId, plantType, cell[1], cell[2], now)
       IN /\ hist.cmds < MaxBombs
          /\ gameState.waveInProgress
          /\ r.result = "ok"
          /\ Commit(Sent(r.w), Call("placePlant", r.result, playerId, plantType,
                              cell[1], cell[2]))
          /\ UNCHANGED <<now, period>>

GardenTick == TickWithin(MaxGardenTicks)

GardenNext == CreateGame \/ GardenJoin \/ StartGame \/ GardenPlant \/ GardenTick

SpecGarden == Init /\ [][GardenNext]_vars

\* A session whose timer calls back every FrostMs, in which the host sets a
\* Snow Pea in the row of the first attackers as soon as the sun allows.
FrostInit ==
    /\ now = EPOCH
    /\ period = FrostMs
    /\ rng \in [cur : 0 .. MaxSeed, step : {0, 1}]
    /\ games = FALSE
    /\ redis = NoGameState
    /\ gameLoops = FALSE
    /\ gameState = NoGameState
    /\ waveManager = NoWaveManager
    /\ nextId = 1
    /\ published = <<>>
    /\ pending = <<>>
    /\ lastCall = NoCall
    /\ hist = NoHistory

FrostCells == {<<0, 5>>, <<0, 6>>}

FrostPlant ==
    \E cell \in FrostCells :
       LET r == placePlant(World, "alice", SNOW_PEA, cell[1], cell[2], now)
       IN /\ r.result = "ok"
          /\ Commit(Sent(r.w), Call("placePlant", r.result, "alice", SNOW_PEA,
                              cell[1], cell[2]))
          /\ UNCHANGED <<now, period>>

FrostTick == TickWithin(MaxFrostTicks)

FrostNext == CreateGame \/ StartGame \/ FrostPlant \/ FrostTick

SpecFrost == FrostInit /\ [][FrostNext]_vars

\* A session whose timer calls back every LullMs, more often than the sun
\* falls, and in which nobody sets a plant; a second player may have joined.
LullInit ==
    /\ now = EPOCH
    /\ period = LullMs
    /\ rng \in [cur : 0 .. MaxSeed, step : {0, 1}]
    /\ games = FALSE
    /\ redis = NoGameState
    /\ gameLoops = FALSE
    /\ gameState = NoGameState
    /\ waveManager = NoWaveManager
    /\ nextId = 1
    /\ published = <<>>
    /\ pending = <<>>
    /\ lastCall = NoCall
    /\ hist = NoHistory

LullTick == TickWithin(MaxLullTicks)

LullNext == CreateGame \/ GardenJoin \/ StartGame \/ LullTick

SpecLull == LullInit /\ [][LullNext]_vars

\* A campaign whose server is started anew once: the new process reloads the
\* sessions that Redis holds as playing.
Restart ==
    /\ hist.cmds < 1
    /\ games /\ gameState.status = "playing"
    /\ Commit(Sent(reloadActiveGames(restarted(World), now)),
              Call("reloadActiveGames", "ok", "", "", 0, 0))
    /\ UNCHANGED <<now, period>>

RestartNext == CreateGame \/ StartGame \/ CampaignTick \/ Restart

SpecRestart == Init /\ [][RestartNext]_vars

\* A session whose publishes take their time: a callback that reaches an
\* await in its wave management may wait there while the timer fires again
\* and the host sends a command, and goes on when Redis has answered.
OverlapSuspend ==
    /\ TimerSet(MaxOverlapTicks)
    /\ Len(pending) < MaxOverlap
    /\ now' = now + period
    /\ LET w == suspendGame(World, now')
       IN /\ Len(w.pending) > Len(pending)
          /\ Commit([w EXCEPT !.hist.ticks = @ + 1],
                    Call("updateGame", "awaiting", "", "", 0, 0))
    /\ UNCHANGED period

OverlapResume ==
    /\ pending # <<>>
    /\ Commit(continueGame(World), Call("updateGame", "resumed", "", "", 0, 0))
    /\ UNCHANGED <<now, period>>

OverlapTick == TickWithin(MaxOverlapTicks)

OverlapPlant ==
    \E cell \in PlacedCells :
       LET r == placePlant(World, "alice", SUNFLOWER, cell[1], cell[2], now)
       IN /\ hist.cmds < 1
          /\ pending # <<>>
          /\ r.result = "ok"
          /\ Commit(Sent(r.w), Call("placePlant", r.result, "alice", SUNFLOWER,
                              cell[1], cell[2]))
          /\ UNCHANGED <<now, period>>

OverlapNext ==
    \/ CreateGame \/ StartGame \/ OverlapTick
    \/ OverlapSuspend \/ OverlapResume \/ OverlapPlant

SpecOverlap == Init /\ [][OverlapNext]_vars

----------------------------------------------------------------------------
(* Properties *)

Players == DOMAIN gameState.players

\* C1: in every reachable state of a session every player's sun balance is
\* a number that is at least 0.
SunNeverNegative ==
    games => \A p \in Players : JsGe(gameState.players[p].sun, 0)

\* the plant types a client may name in a request, and the cells of
\* column 0 it may name, on the board and off it
AskedTypes == {SUNFLOWER, PEASHOOTER, "constructor", "Triffid"}
MowerCells == {<<row, 0>> : row \in {0 - 1, 0, ROWS - 1, ROWS}}

Occupied(row, col) ==
    /\ row \in Rows
    /\ col \in Cols
    /\ gameState.board[<<row, col>>].plant # 0

OccupiedCells == {cell \in Rows \X Cols : Occupied(cell[1], cell[2])}

\* placePlant has left the session as it was
Untouched(r) == r.w.gs = gameState /\ r.w.pub = <<>>

\* the answer r to a request of player p for a plant of type ty in column col
Refused(r, p, ty, col) ==
    /\ r.result # "ok"
    /\ Untouched(r)
    /\ (gameState.status = "playing" /\ p \in Players /\ ty \in PlantNames)
         => r.result = IF col = 0 THEN "Invalid position"
                                  ELSE "Position already occupied"

\* C2: placePlant at a cell that holds a plant, or in column 0, fails and
\* changes nothing of the session; in a playing session, for a player of the
\* session and a known plant type, the error is the invalid-position error
\* for column 0 and the occupied error for a cell that holds a plant.
PlacePlantRefused ==
    games =>
      \A p \in PlayerIds, ty \in AskedTypes, cell \in MowerCells \cup OccupiedCells :
         Refused(placePlant(World, p, ty, cell[1], cell[2], now), p, ty, cell[2])

\* a plant has been placed, and a request for its cell is answered "occupied"
PlacePlantRefusedWitness ==
    /\ games
    /\ gameState.status = "playing"
    /\ lastCall.op = "placePlant"
    /\ Occupied(lastCall.row, lastCall.col)
    /\ placePlant(World, "alice", PEASHOOTER, lastCall.row, lastCall.col, now).result
         = "Position already occupied"
    /\ placePlant(World, "alice", PEASHOOTER, lastCall.row, 0, now).result
         = "Invalid position"

\* the answer r to a request that succeeds has debited the cost, put the new
\* plant in the cell and in the list, counted it and announced it, and the
\* cell is occupied for the next request
Placed(r, p, ty, cell) ==
    /\ r.w.gs.players[p].sun = gameState.players[p].sun - PLANTS[ty].cost
    /\ r.w.gs.board[cell].plant = r.plant
    /\ \E i \in 1 .. Len(r.w.gs.plants) : r.w.gs.plants[i].id = r.plant
    /\ Len(r.w.gs.plants) = Len(gameState.plants) + 1
    /\ r.w.gs.players[p].plantsPlaced = gameState.players[p].plantsPlaced + 1
    /\ \E i \in 1 .. Len(r.w.pub) : r.w.pub[i].type = "plant_placed"
    /\ placePlant(r.w, p, ty, cell[1], cell[2], now).result
         = "Position already occupied"

Paid(r, p, ty, cell) ==
    /\ r.result = "ok" <=> JsGe(gameState.players[p].sun, PLANTS[ty].cost)
    /\ r.result = "ok" => Placed(r, p, ty, cell)

\* C3: in a playing session a request of a player of the session for a
\* known plant type at an empty plantable cell of the board succeeds if and
\* only if the player's sun is at least the cost; then the sun is debited
\* by the cost, the cell and the list hold the new plant, plantsPlaced has
\* grown by one, plant_placed is published and a second request for the
\* cell fails as occupied.
PlacePlantPaid ==
    (games /\ gameState.status = "playing") =>
      \A p \in Players, ty \in {SUNFLOWER, PEASHOOTER},
         cell \in (Rows \X (Cols \ {0})) \ OccupiedCells :
         Paid(placePlant(World, p, ty, cell[1], cell[2], now), p, ty, cell)

\* a wave is being played
WaveInPlay ==
    /\ games
    /\ gameState.status = "playing"
    /\ waveManager.exists
    /\ gameState.waveInProgress

\* wave k is due to end at time t with `zombies` zombies on the lawn
Due(k, elapsed, zombies) == elapsed >= WAVES[k + 1].duration /\ zombies = 0

\* C4: isWaveComplete answers true if and only if the effective time
\* elapsed since the wave started (the time not spent paused) is at least
\* the wave's duration and no zombie is on the lawn: both whenever it would
\* be asked in a playing session and whenever the game loop has asked it.
WaveCompleteIffDue ==
    /\ WaveInPlay =>
          (isWaveComplete(World, now) <=>
             Due(waveManager.currentWaveIndex,
                 EffectiveElapsed(hist, waveManager.currentWaveIndex, now),
                 Len(gameState.zombies)))
    /\ hist.tick.checked =>
          (hist.tick.complete <=>
             Due(hist.tick.waveAtCheck, hist.tick.effectiveAtCheck,
                 hist.tick.zombiesAtCheck))

\* the loop has found a wave complete that was paused for a while
WaveCompleteIffDueWitness ==
    /\ hist.tick.checked
    /\ hist.tick.complete
    /\ hist.pausedTotal > hist.waveStart[hist.tick.waveAtCheck].paused

\* what the arrival e of an attacker at the edge of its row did: with the
\* mower already triggered, nothing but its own removal; otherwise the
\* mower is triggered and no attacker of the row is left alive
EdgeDone(e) ==
    IF e.wasTriggered
      THEN /\ e.isTriggered
           /\ e.credited = {}
           /\ ~e.scoreChanged
           /\ e.othersHit = {}
      ELSE /\ e.isTriggered
           /\ e.rowAlive = {}

\* every arrival of the last callback did what it should, and no attacker
\* that arrived is still on the lawn
EdgesDone ==
    games =>
      /\ \A i \in DOMAIN hist.tick.edge : EdgeDone(hist.tick.edge[i])
      /\ \A i \in DOMAIN gameState.zombies :
            gameState.zombies[i].x > 0 /\ gameState.zombies[i].health > 0

\* a triggered mower stays triggered, and a mower is triggered only by an
\* attacker that reaches the edge of its row
MowerStep ==
    (games /\ games') =>
      \A row \in Rows :
         /\ gameState.lawnMowers[row].triggered
              => gameState'.lawnMowers[row].triggered
         /\ (~gameState.lawnMowers[row].triggered
               /\ gameState'.lawnMowers[row].triggered)
              => \E i \in DOMAIN hist'.tick.edge :
                    /\ hist'.tick.edge[i].row = row
                    /\ ~hist'.tick.edge[i].wasTriggered

\* C5: the mower of a lane goes from untriggered to triggered at most once
\* and never back; when it does, every living attacker of the lane is
\* killed; an attacker that reaches the edge of a lane whose mower is
\* already triggered is removed, and that neither triggers the mower again
\* nor hurts another attacker nor changes a score or a kill credit.
LawnMowerOnce == []EdgesDone /\ [][MowerStep]_vars

\* an attacker has reached the edge of a lane whose mower was triggered
LawnMowerOnceWitness ==
    \E i \in DOMAIN hist.tick.edge : hist.tick.edge[i].wasTriggered

\* no mower of the session gs is left to defend a lane
AllMowersUsed(gs) ==
    \A row \in Rows : ~(gs.lawnMowers[row].active /\ ~gs.lawnMowers[row].triggered)

Defeated == gameState.status = "ended" /\ gameState.result = "defeat"

\* defeat is declared only with every mower used, and a session that plays
\* on has a mower left
DefeatOnlyUnguarded ==
    games =>
      /\ Defeated => AllMowersUsed(gameState)
      /\ gameState.status \in {"playing", "paused"} => ~AllMowersUsed(gameState)

\* the step that uses the last mower ends the session in defeat
LastMowerStep ==
    (games /\ ~AllMowersUsed(gameState) /\ AllMowersUsed(gameState'))
      => (gameState'.status = "ended" /\ gameState'.result = "defeat")

\* C6: a playing session is ended with result defeat in the very callback
\* in which its last untriggered mower is triggered, and defeat is never
\* declared while a mower is active and untriggered.
DefeatWithLastMower == []DefeatOnlyUnguarded /\ [][LastMowerStep]_vars

\* the callback that has just run triggered a mower and ended in defeat
DefeatWithLastMowerWitness ==
    /\ Defeated
    /\ lastCall.op = "updateGame"
    /\ \E i \in DOMAIN hist.tick.edge : ~hist.tick.edge[i].wasTriggered

\* the end check finds the last wave passed, the lawn empty and no wave in
\* progress
Won(gs) ==
    /\ gs.currentWave >= NumWaves
    /\ Len(gs.zombies) = 0
    /\ ~gs.waveInProgress

Victorious == gameState.status = "ended" /\ gameState.result = "victory"

\* C7: a session ends with result victory exactly when the end check of a
\* callback finds currentWave past the last wave, no attacker and no wave in
\* progress; victory is never declared while a wave is unstarted or in
\* progress or an attacker is alive.
VictoryExactlyWhenWon ==
    games =>
      /\ hist.tick.ran => (Victorious <=> Won(gameState))
      /\ Victorious =>
            /\ Won(gameState)
            /\ \A k \in 0 .. (NumWaves - 1) : hist.starts[k] >= 1
      /\ gameState.status \in {"playing", "paused"} => ~Won(gameState)

\* the callback that has just run ended the session in victory
VictoryExactlyWhenWonWitness ==
    Victorious /\ lastCall.op = "updateGame" /\ hist.tick.ran

\* wave k is being played
Playing(k) == WaveInPlay /\ gameState.currentWave = k

\* the callback that has just run reported wave k complete
Completed(k) ==
    /\ hist.tick.complete
    /\ hist.tick.waveAtCheck = k
    /\ gameState.currentWave = k + 1
    /\ ~gameState.waveInProgress
    /\ \E i \in DOMAIN published :
          published[i] = [type |-> "wave_completed", info |-> k]

\* C8: while the loop keeps calling back, a wave in progress in a playing
\* session is eventually reported complete (its attackers all die on the
\* way): wave_completed is published, currentWave has grown by exactly one
\* and waveInProgress is false; unless the session is paused or ended
\* first.  The waves looked at start early enough to be over within the
\* callbacks of the model.
WaveEventuallyCompleted ==
    \A k \in 0 .. (NumWaves - 1) :
       (Playing(k) /\ hist.ticks + WaveTicks <= MaxCampaignTicks)
          ~> (Completed(k) \/ gameState.status \in {"paused", "ended"})

\* the second wave has been reported complete
WaveEventuallyCompletedWitness == Completed(1)

\* the offset of event e = <<wave, index>> in the timeline of its wave
EventTime(e) == WAVES[e[1] + 1].timeline[e[2] + 1].time
EventsOfWave(k) == {e \in EventIds : e[1] = k}

\* an event is executed at most once, and then at an effective elapsed time
\* that has reached its offset
ExecutedOnceWhenDue ==
    \A e \in EventIds :
       /\ hist.fired[e] <= 1
       /\ hist.fired[e] = 1 => hist.firedAt[e] >= EventTime(e)

\* a call that has updated the wave in progress leaves no event of it
\* unexecuted whose offset the effective elapsed time has reached
ExecutedAtFirstTick ==
    hist.tick.checked =>
       \A e \in EventsOfWave(hist.tick.waveAtCheck) :
          EventTime(e) <= hist.tick.effectiveAtCheck => hist.fired[e] = 1

\* a wave reported complete has had every event of its timeline executed
\* whose offset is within the duration of the wave
ExecutedBeforeComplete ==
    (hist.tick.checked /\ hist.tick.complete) =>
       \A e \in EventsOfWave(hist.tick.waveAtCheck) :
          EventTime(e) <= WAVES[e[1] + 1].duration => hist.fired[e] = 1

\* the processed set holds the executed events of the wave that was started
\* last, and nothing of an earlier wave
ProcessedOfThisWave ==
    /\ waveManager.processedEvents
          \subseteq EventsOfWave(waveManager.currentWaveIndex)
    /\ \A e \in EventsOfWave(waveManager.currentWaveIndex) :
          e \in waveManager.processedEvents <=> hist.fired[e] = 1

\* C9: while a wave is in progress every event of its timeline is executed
\* exactly once, not before the effective elapsed time since the start of
\* the wave reaches its offset and at the first call at which it has; the
\* events with an offset within the duration of the wave are all executed
\* before the wave is reported complete; starting a wave clears the
\* processed set, so that it holds events of the new wave only.
TimelineExecutedOnce ==
    /\ ExecutedOnceWhenDue
    /\ ExecutedAtFirstTick
    /\ ExecutedBeforeComplete
    /\ ProcessedOfThisWave

\* the second wave, started after the first has filled the processed set,
\* has had a later event of its timeline executed after a pause
TimelineExecutedOnceWitness ==
    /\ hist.starts[0] = 1
    /\ hist.starts[1] = 1
    /\ hist.fired[<<0, 2>>] = 1
    /\ hist.fired[<<1, 1>>] = 1
    /\ hist.firedAt[<<1, 1>>] > 0
    /\ hist.pausedTotal > hist.waveStart[1].paused
    /\ <<1, 1>> \in waveManager.processedEvents

\* the changes of status a session may make
StatusFlow(from, to) ==
    \/ to = from
    \/ from = "none" /\ to = "waiting"
    \/ from = "waiting" /\ to = "playing"
    \/ from = "playing" /\ to \in {"paused", "ended"}
    \/ from = "paused" /\ to = "playing"

\* a session that has ended stays as it ended
Terminal(before, after) ==
    before.status = "ended" =>
       after.status = "ended" /\ after.result = before.result

Follows(before, after) ==
    StatusFlow(before.status, after.status) /\ Terminal(before, after)

EndedWithResult ==
    gameState.status = "ended" => gameState.result \in {"victory", "defeat"}

\* whatever command reaches the engine in this state, accepted or refused,
\* and a callback of the timer on a session that has ended
CommandsFollow ==
    /\ \A p \in PlayerIds :
          /\ Follows(gameState, joinGame(World, p, now).w.gs)
          /\ Follows(gameState, startGame(World, p, now).w.gs)
          /\ Follows(gameState, removePlayer(World, p).gs)
          /\ Follows(gameState, pauseGame(World, p, now).w.gs)
          /\ Follows(gameState, resumeGame(World, p, now).w.gs)
          /\ \A powerupType \in UsedPowerups :
                Follows(gameState, usePowerup(World, p, powerupType, now).w.gs)
          /\ \A plantType \in PlacedTypes, cell \in PlacedCells :
                Follows(gameState,
                        placePlant(World, p, plantType, cell[1], cell[2], now).w.gs)
    /\ gameState.status = "ended" =>
          Follows(gameState, updateGame(World, now + period).gs)

StatusStep == Follows(gameState, gameState')

\* C10: the status of a session changes only from waiting to playing,
\* between playing and paused, and from playing to ended; it never returns
\* to waiting; once ended, no callback and no command changes the status or
\* the result, and the result is victory or defeat.
StatusFlowKept ==
    /\ []EndedWithResult
    /\ []CommandsFollow
    /\ [][StatusStep]_vars

\* a session that was paused and resumed has been played to its end
StatusFlowKeptWitness ==
    /\ gameState.status = "ended"
    /\ hist.pausedTotal > 0
    /\ hist.ends >= 1

\* what the attackers of a session are and where they stand
Attackers(gs) ==
    [i \in DOMAIN gs.zombies |->
       <<gs.zombies[i].id, gs.zombies[i].row, gs.zombies[i].x,
         gs.zombies[i].health>>]

\* any player of a session in play can pause it, any player of a paused
\* session can resume it
PauseResumeByAnyPlayer ==
    games =>
       \A p \in Players :
          /\ gameState.status = "playing" =>
                /\ pauseGame(World, p, now).result = "ok"
                /\ pauseGame(World, p, now).w.gs.status = "paused"
          /\ gameState.status = "paused" =>
                /\ resumeGame(World, p, now).result = "ok"
                /\ resumeGame(World, p, now).w.gs.status = "playing"

\* a step of a paused session executes no timeline event, spawns and moves
\* no attacker and grants no sun; a callback of the timer changes nothing
PausedStep ==
    (games /\ gameState.status = "paused") =>
       /\ hist'.fired = hist.fired
       /\ Attackers(gameState') = Attackers(gameState)
       /\ \A p \in DOMAIN gameState'.players :
             gameState'.players[p].sun = gameState.players[p].sun
       /\ lastCall'.op = "updateGame" =>
             /\ gameState' = gameState
             /\ waveManager' = waveManager
             /\ published' = <<>>

\* C11: pauseGame by any player of a session in play moves it to paused and
\* resumeGame by any player of a paused session moves it back to playing;
\* while the session is paused no timeline event is processed, no attacker
\* is spawned or moved and no sun is granted.
PausedStandsStill ==
    /\ []PauseResumeByAnyPlayer
    /\ [][PausedStep]_vars

\* the timer has called back on a session of two players that was paused
\* during a wave, with attackers on the lawn
PausedStandsStillWitness ==
    /\ gameState.status = "paused"
    /\ lastCall.op = "updateGame"
    /\ gameState.waveInProgress
    /\ Len(gameState.zombies) > 0
    /\ Cardinality(Players) = 2

\* the real-time gaps after which a paused session is resumed
PauseGaps == {0, 1, TickMs, 20000}

\* the session paused by p at time t and resumed after gap
PausedAndResumed(w, p, t, gap) ==
    resumeGame(pauseGame(w, p, t).w, p, t + gap).w

\* every executed event of a timeline was executed at the effective elapsed
\* time at which a session never paused executes it: the first callback
\* at or after its offset
EventsAtEffectiveOffsets ==
    \A e \in EventIds :
       hist.fired[e] = 1 =>
          /\ hist.firedAt[e] >= EventTime(e)
          /\ hist.firedAt[e] < EventTime(e) + period
          /\ hist.firedAt[e] % period = 0

\* a wave in progress has, after a pause of any length, run for as long as
\* before it: the same events are due and it is complete or not as before
WaveKeepsElapsed ==
    (games /\ gameState.status = "playing" /\ gameState.waveInProgress) =>
       \A p \in Players, gap \in PauseGaps :
          /\ (now + gap) - PausedAndResumed(World, p, now, gap).wm.waveStartTime
                = now - waveManager.waveStartTime
          /\ isWaveComplete(PausedAndResumed(World, p, now, gap), now + gap)
                <=> isWaveComplete(World, now)
          /\ processTimeline(PausedAndResumed(World, p, now, gap), 0,
                             now + gap).wm.processedEvents
                = processTimeline(World, 0, now).wm.processedEvents

\* a horde of 10000 ms paused 5000 ms in has 5000 ms left when it is
\* resumed, however long the pause
HordeKeepsRemaining ==
    (games /\ gameState.status = "playing" /\ waveManager.exists) =>
       \A p \in Players, gap \in PauseGaps :
          /\ PausedAndResumed(startHorde(World, 10000, 1000, now), p,
                              now + 5000, gap).wm.hordeActive
          /\ PausedAndResumed(startHorde(World, 10000, 1000, now), p,
                              now + 5000, gap).wm.hordeEndTime
                - (now + 5000 + gap) = 5000
          /\ endHorde(PausedAndResumed(startHorde(World, 10000, 1000, now), p,
                                       now + 5000, gap),
                      now + gap + 9999).wm.hordeActive
          /\ ~endHorde(PausedAndResumed(startHorde(World, 10000, 1000, now), p,
                                        now + 5000, gap),
                       now + gap + 10000).wm.hordeActive

\* a powerup used before a pause is on cooldown until the cooldown has
\* elapsed in time not spent paused, and no longer
CooldownKeepsRemaining ==
    (games /\ gameState.status = "playing") =>
       \A p \in Players, u \in PowerupNames, gap \in PauseGaps :
          usePowerup(World, p, u, now).result = "ok" =>
             /\ usePowerup(PausedAndResumed(usePowerup(World, p, u, now).w,
                                            p, now + 5000, gap),
                           p, u, now + gap + POWERUPS[u].cooldown - 1).result
                   = "Powerup on cooldown"
             /\ usePowerup(PausedAndResumed(usePowerup(World, p, u, now).w,
                                            p, now + 5000, gap),
                           p, u, now + gap + POWERUPS[u].cooldown).result
                   = "ok"

Session == IF games THEN gameState ELSE ParsedGame(redis)

Joinable ==
    /\ games \/ Saved(World)
    /\ Session.status = "waiting"
    /\ Cardinality(DOMAIN Session.players) < MAX_PLAYERS_PER_GAME

JoinRefusal ==
    IF ~games /\ ~Saved(World) THEN "Game not found"
    ELSE IF Session.status # "waiting" THEN "Game already in progress"
    ELSE "Game is full"

\* what joinGame answers to player p and does to the session
JoinAnswer(r, p) ==
    /\ r.result = "ok" <=> Joinable
    /\ r.result = "ok" =>
          /\ DOMAIN r.w.gs.players = DOMAIN Session.players \cup {p}
          /\ \A q \in DOMAIN Session.players \ {p} :
                r.w.gs.players[q] = Session.players[q]
          /\ r.w.gs.status = "waiting"
    /\ r.result # "ok" =>
          /\ r.result = JoinRefusal
          /\ r.w.gs.players = Session.players

JoinOnlyOpenLobby ==
    \A p \in LobbyIds : JoinAnswer(joinGame(World, p, now), p)

AtMostMaxPlayers ==
    games => Cardinality(Players) <= MAX_PLAYERS_PER_GAME

\* no step adds a player to a session in memory that has been started
NoneAddedOnceStarted ==
    (games /\ games' /\ gameState.status # "waiting") =>
       DOMAIN gameState'.players \subseteq DOMAIN gameState.players

\* C13: joinGame adds a player only to an existing session that is waiting
\* and has fewer than MAX_PLAYERS_PER_GAME players, and otherwise fails
\* (not found, already in progress, full) without adding anyone; so a
\* session never has more than MAX_PLAYERS_PER_GAME players and no player
\* is added after the game has started.
JoinOnlyWaitingNotFull ==
    /\ []JoinOnlyOpenLobby
    /\ []AtMostMaxPlayers
    /\ [][NoneAddedOnceStarted]_vars

\* a full session has been started, and a fifth player who asked to join
\* was refused
JoinOnlyWaitingNotFullWitness ==
    /\ games
    /\ Cardinality(Players) = MAX_PLAYERS_PER_GAME
    /\ gameState.status = "playing"
    /\ hist.ticks > 0
    /\ \E p \in LobbyIds \ Players :
          joinGame(World, p, now).result = "Game already in progress"

\* the lobby is full and the player who asks to join is told so
LobbyFull ==
    /\ games
    /\ gameState.status = "waiting"
    /\ Cardinality(Players) = MAX_PLAYERS_PER_GAME
    /\ \E p \in LobbyIds \ Players :
          joinGame(World, p, now).result = "Game is full"

\* the players who may ask, one of them never in any session
StartAskers == LobbyIds \cup {"mallory"}

IsHost(p) == p \in Players /\ gameState.players[p].isHost

StartRefusal(p) ==
    IF ~games THEN "Game not found"
    ELSE IF ~IsHost(p) THEN "Only the host can start the game"
    ELSE "Game already started"

\* what startGame answers to player p and does to the engine
StartAnswer(r, p) ==
    /\ r.result = "ok" <=> (games /\ IsHost(p) /\ gameState.status = "waiting")
    /\ r.result # "ok" =>
          /\ r.result = StartRefusal(p)
          /\ r.w.gs.status = gameState.status
          /\ r.w.gs.nextWaveTime = gameState.nextWaveTime
          /\ r.w.loops = gameLoops
          /\ r.w.pub = <<>>
    /\ r.result = "ok" =>
          /\ r.w.gs.status = "playing"
          /\ r.w.gs.nextWaveTime = now + FIRST_WAVE_DELAY
          /\ ~gameLoops /\ r.w.loops
          /\ r.w.wm.exists
          /\ r.w.pub = <<[type |-> "game_started", info |-> 0]>>

\* C14: startGame succeeds only for the host of a waiting session; for a
\* player who is not the host or not in the session it fails with the
\* not-host error, for a session that is not waiting with the
\* already-started error, and leaves status, nextWaveTime and the timer as
\* they were; when it succeeds the status is playing, the first wave is due
\* FIRST_WAVE_DELAY later, one timer is registered where there was none, and
\* game_started is published.
StartOnlyByHostOfLobby ==
    \A p \in StartAskers : StartAnswer(startGame(World, p, now), p)

\* the host has started a session of several players, in which the guests
\* are now refused as guests and the host because it has started
StartOnlyByHostOfLobbyWitness ==
    /\ lastCall.op = "startGame"
    /\ gameState.status = "playing"
    /\ gameLoops
    /\ Cardinality(Players) >= 3
    /\ \E p \in Players :
          startGame(World, p, now).result = "Game already started"
    /\ \E p \in Players :
          startGame(World, p, now).result = "Only the host can start the game"

\* the time for which player p has to wait before using powerup u again
OnCooldown(p, u) ==
    /\ hist.used[<<p, u>>] # 0
    /\ now - hist.used[<<p, u>>] < POWERUPS[u].cooldown

\* a use of a powerup that succeeds comes a cooldown or more after the
\* last one by the same player of the same type
CooldownStep ==
    lastCall'.op = "usePowerup" =>
       ~OnCooldown(lastCall'.playerId, lastCall'.type)

\* a use before that is refused and changes nothing
RefusedOnCooldown ==
    (games /\ gameState.status = "playing") =>
       \A p \in Players, u \in PowerupNames :
          OnCooldown(p, u) =>
             /\ usePowerup(World, p, u, now).result = "Powerup on cooldown"
             /\ usePowerup(World, p, u, now).w.gs = gameState
             /\ usePowerup(World, p, u, now).w.redis = redis

\* C15: for each player and each powerup type, two successful usePowerup
\* calls are at least the cooldown of that powerup apart; a call made before
\* the cooldown has elapsed fails with the on-cooldown error and changes
\* neither the player's sun, the active effects nor the time of last use.
PowerupCooldownKept ==
    /\ []RefusedOnCooldown
    /\ [][CooldownStep]_vars

\* a player has used Sun Boost a second time, after its cooldown
PowerupCooldownKeptWitness ==
    /\ lastCall.op = "usePowerup"
    /\ lastCall.type = SUN_BOOST
    /\ hist.cmds = 2
    /\ gameState.status = "playing"
    /\ \E p \in Players :
          /\ hist.used[<<p, SUN_BOOST>>] = now
          /\ gameState.players[p].sun >= INITIAL_SUN + 2 * POWERUPS[SUN_BOOST].amount

\* a player who has just used a powerup asks for it again
PowerupRefused ==
    /\ gameState.status = "playing"
    /\ \E p \in Players, u \in PowerupNames :
          OnCooldown(p, u)
          /\ usePowerup(World, p, u, now).result = "Powerup on cooldown"

\* the session the callback finds is not in play
NotInPlay == (games \/ Saved(World)) /\ Session.status # "playing"

\* C16: a call of updateGame on a session whose status is not playing
\* (waiting, paused or ended) changes nothing: no sun is granted, no wave
\* starts or advances, no entity is created, moved, damaged or removed,
\* nothing is saved and no event is published.
IdleTickChangesNothing ==
    NotInPlay => updateGame(World, now + period) = World

\* the timer has called back on a session paused while a horde is on
IdleTickChangesNothingWitness ==
    /\ gameState.status = "paused"
    /\ lastCall.op = "updateGame"
    /\ waveManager.hordeActive
    /\ now + period >= gameState.sunFallTimer

\* the session in memory is what it was before the call that answered r
SameInMemory(r) ==
    /\ r.w.games = games
    /\ games => r.w.gs = gameState

\* the requests the players send, well-formed or not
ErrorTypes == {SUNFLOWER, PEASHOOTER, "constructor", "Triffid"}
ErrorCells == {<<0, 0>>, <<0, 1>>, <<ROWS, 1>>}
ErrorPowerups == {SUN_BOOST, SPEED_BOOST, "constructor", "Triffid"}

JoinErrorsChangeNothing ==
    \A p \in StartAskers :
       joinGame(World, p, now).result # "ok"
          => SameInMemory(joinGame(World, p, now))

StartErrorsChangeNothing ==
    \A p \in StartAskers :
       startGame(World, p, now).result # "ok"
          => SameInMemory(startGame(World, p, now))

PlaceErrorsChangeNothing ==
    \A p \in StartAskers, ty \in ErrorTypes, cell \in ErrorCells :
       placePlant(World, p, ty, cell[1], cell[2], now).result # "ok"
          => SameInMemory(placePlant(World, p, ty, cell[1], cell[2], now))

PowerupErrorsChangeNothing ==
    \A p \in StartAskers, u \in ErrorPowerups :
       usePowerup(World, p, u, now).result # "ok"
          => SameInMemory(usePowerup(World, p, u, now))

\* C17: whenever joinGame, startGame, placePlant or usePowerup reports an
\* error to its caller, the session in memory (status, players, sun, board,
\* plants, cooldown timestamps, active effects) is exactly what it was
\* before the call.
ErrorsChangeNothing ==
    /\ JoinErrorsChangeNothing
    /\ StartErrorsChangeNothing
    /\ PlaceErrorsChangeNothing
    /\ PowerupErrorsChangeNothing

\* the errors of the commands other than joinGame, and those of joinGame on
\* a session that is in memory
ErrorsInMemoryChangeNothing ==
    /\ games => JoinErrorsChangeNothing
    /\ StartErrorsChangeNothing
    /\ PlaceErrorsChangeNothing
    /\ PowerupErrorsChangeNothing

\* the callback whose save was rejected left the session in play
SaveWasRejected ==
    /\ lastCall.op = "updateGame"
    /\ lastCall.result = "save rejected"
    /\ gameState.status = "playing"

\* the timer is still set after a callback whose save was rejected
LoopOutlivesRejectedSave == SaveWasRejected => gameLoops

\* no command of a player who stays in the session stops the timer
InputKeepsLoop ==
    gameLoops =>
       /\ \A p \in StartAskers :
             /\ joinGame(World, p, now).w.loops
             /\ startGame(World, p, now).w.loops
             /\ pauseGame(World, p, now).w.loops
             /\ resumeGame(World, p, now).w.loops
       /\ \A p \in StartAskers, ty \in ErrorTypes, cell \in ErrorCells :
             placePlant(World, p, ty, cell[1], cell[2], now).w.loops
       /\ \A p \in StartAskers, u \in ErrorPowerups :
             usePowerup(World, p, u, now).w.loops
       /\ \A p \in StartAskers :
             DOMAIN gameState.players \ {p} # {}
                => removePlayer(World, p).loops

\* C18: a rejected saveGameState during a tick does not stop the session's
\* tick loop (the session in memory stays in play and its timer stays set,
\* so later ticks run), and no player input stops the loop either.
SaveFailureKeepsLoop ==
    /\ LoopOutlivesRejectedSave
    /\ InputKeepsLoop

\* the bombs on the lawn, by their index in gameState.plants
Bombs ==
    {i \in 1 .. Len(gameState.plants) :
        gameState.plants[i].type \in {CHERRY_BOMB, JALAPENO}}

\* the area of a bomb: the attackers at most 1.5 away from a Cherry Bomb,
\* the distance being sqrt(dc^2 + dr^2) over whole rows and columns, and the
\* attackers in the row of a Jalapeno
InBlast(plant, zombie) ==
    IF plant.type = CHERRY_BOMB
      THEN (zombie.col - plant.col) * (zombie.col - plant.col)
             + (zombie.row - plant.row) * (zombie.row - plant.row) <= 2
      ELSE zombie.row = plant.row

Exploded(plant) ==
    IF plant.type = CHERRY_BOMB THEN explodeCherryBomb(World, plant)
    ELSE explodeJalapeno(World, plant)

\* what is left of an attacker that a bomb of this damage has hit
Hit(zombie, damage) ==
    [zombie EXCEPT !.health = IF @ <= damage THEN 0 ELSE @ - damage]

\* the explosion of this bomb damages the attackers in its area and no
\* other, counts those it kills for every player, the owner among them, its
\* dead are gone after cleanupEntities, and the bomb has left its cell
BlastRight(plant) ==
    LET r == Exploded(plant)
        damage == PLANTS[plant.type].damage
        hit == {zi \in 1 .. Len(gameState.zombies) :
                  InBlast(plant, gameState.zombies[zi])}
        killed == {zi \in hit : gameState.zombies[zi].health <= damage}
    IN /\ Len(r.gs.zombies) = Len(gameState.zombies)
       /\ \A zi \in 1 .. Len(gameState.zombies) :
             r.gs.zombies[zi] = IF zi \in hit
                                  THEN Hit(gameState.zombies[zi], damage)
                                  ELSE gameState.zombies[zi]
       /\ \A p \in Players :
             r.gs.players[p].zombiesKilled
                = gameState.players[p].zombiesKilled + Cardinality(killed)
       /\ Len(cleanupEntities(r, now).gs.zombies)
             = Len(gameState.zombies) - Cardinality(killed)
       /\ r.gs.board[<<plant.row, plant.col>>].plant = 0
       /\ Len(r.gs.plants) = Len(gameState.plants) - 1
       /\ \A i \in 1 .. Len(r.gs.plants) : r.gs.plants[i].id # plant.id

\* the times at which a callback may look at a fuse
FuseTimes == {now, now + 1499, now + 1500, now + 1999, now + 2000, now + period}

\* a bomb goes off at the callback that finds its fuse time elapsed, and not
\* before
FuseSetsOff ==
    \A i \in Bombs, t \in FuseTimes :
       updatePlantSpecialAbilities(World, gameState.plants[i], t)
          = IF t - gameState.plants[i].plantedAt
                  >= PLANTS[gameState.plants[i].type].fuseTime
              THEN Exploded(gameState.plants[i])
              ELSE World

\* every bomb on the lawn would explode as described
BlastHitsItsArea ==
    (games /\ gameState.status = "playing") =>
       /\ FuseSetsOff
       /\ \A i \in Bombs : BlastRight(gameState.plants[i])

\* no attacker is left on the lawn with no health after a callback
DeadRemoved ==
    \A zi \in 1 .. Len(gameState.zombies) : gameState.zombies[zi].health > 0

\* the attackers that have been killed
Killed == {id \in DOMAIN hist.credits : hist.credits[id] >= 1}

\* every player's kill count is the number of attackers killed: each of them
\* has been counted once
KillsCountedOnce ==
    games =>
       \A p \in Players :
          gameState.players[p].zombiesKilled = Cardinality(Killed)

\* C19: a Cherry Bomb whose fuse time has elapsed damages by its damage
\* every attacker within its explosion radius (Euclidean over row and
\* column) and a Jalapeno every attacker in its row, the others are
\* undamaged, an attacker brought to health <= 0 is gone at the end of the
\* tick with the owner's kill count one higher, and the bomb is removed and
\* its cell vacated.
BlastKillsItsArea ==
    /\ BlastHitsItsArea
    /\ DeadRemoved
    /\ KillsCountedOnce

\* a callback has set off a bomb that killed an attacker
BlastHappened ==
    /\ lastCall.op = "updateGame"
    /\ Killed # {}
    /\ Bombs = {}
    /\ Len(gameState.plants) < hist.cmds

\* a bomb lies next to attackers of which it would hit some and spare others
BlastSpares ==
    \E i \in Bombs, zi, zj \in 1 .. Len(gameState.zombies) :
       /\ InBlast(gameState.plants[i], gameState.zombies[zi])
       /\ ~InBlast(gameState.plants[i], gameState.zombies[zj])

\* a bomb whose fuse time had elapsed was passed over by a callback
BombPassedOver ==
    /\ lastCall.op = "updateGame"
    /\ \E i \in Bombs :
          now - gameState.plants[i].plantedAt
             >= PLANTS[gameState.plants[i].type].fuseTime

\* the last player of the session has left it
AllLeft == gameState.status # "none" /\ DOMAIN gameState.players = {}

\* the session is over: everyone has left, or the game has ended
SessionOver == AllLeft \/ gameState.status = "ended"

\* the engine holds nothing of the session
HoldsNothing == ~gameLoops /\ ~games /\ ~waveManager.exists

\* a player who leaves others behind leaves the session registered and its
\* timer as it was
LeaverKeepsSession ==
    games =>
       \A p \in Players :
          Players \ {p} # {} =>
             /\ removePlayer(World, p).games
             /\ removePlayer(World, p).loops = gameLoops

\* C20: once the last player has been removed from a session, and once a
\* session has ended, the engine holds no timer, no registry entry and no
\* wave manager for it; a player who leaves while others remain leaves the
\* session registered and its timer running.
TeardownHoldsNothing ==
    /\ SessionOver => HoldsNothing
    /\ LeaverKeepsSession

\* the part of the teardown that removePlayer does: timer and registry entry
LastLeaveClears == AllLeft => (~gameLoops /\ ~games)

\* the part of the teardown that endGame does: the timer
EndClearsTimer == gameState.status = "ended" => ~gameLoops

\* everyone has left a started session, whose wave manager is still held
WaveManagerLeftBehind ==
    /\ AllLeft
    /\ lastCall.op = "removePlayer"
    /\ waveManager.exists

\* a session has ended and is still registered with its wave manager
EndedStillRegistered ==
    /\ gameState.status = "ended"
    /\ games
    /\ waveManager.exists

\* C22: every attacker is credited as a kill at most once over its lifetime:
\* killZombie, which adds its points and one kill to the players, has run no
\* more than one time for it, whatever hit it and however often in one tick.
CreditedAtMostOnce ==
    \A id \in DOMAIN hist.credits : hist.credits[id] <= 1

\* the wave counter is a number of configured waves
WaveInRange == gameState.currentWave \in 0 .. NumWaves

\* the counter changes by +1, in a callback that asked the wave in progress
\* whether it was complete and was told so, and that wave is then over
WaveCounterStep ==
    gameState'.currentWave # gameState.currentWave =>
       /\ gameState'.currentWave = gameState.currentWave + 1
       /\ lastCall'.op = "updateGame"
       /\ hist'.tick.checked
       /\ hist'.tick.complete
       /\ hist'.tick.waveAtCheck = gameState.currentWave
       /\ ~gameState'.waveInProgress

\* a wave is started only when none is in progress, and it is the wave the
\* counter names
WaveStartStep ==
    hist'.starts # hist.starts =>
       /\ ~gameState.waveInProgress
       /\ gameState'.waveInProgress
       /\ gameState.currentWave < NumWaves
       /\ hist'.starts =
             [hist.starts EXCEPT ![gameState.currentWave] = @ + 1]

\* a wave in progress is the wave the counter names, held by the one manager
OneWaveInProgress ==
    (games /\ gameState.waveInProgress) =>
       /\ waveManager.exists
       /\ waveManager.currentWaveIndex = gameState.currentWave
       /\ gameState.currentWave < NumWaves

\* C25: currentWave never decreases, changes only by +1 and only when a wave
\* in progress is reported complete, stays within 0 .. number of configured
\* waves, and at most one wave is in progress at a time.
WaveCounterKept ==
    /\ [](WaveInRange /\ OneWaveInProgress)
    /\ [][WaveCounterStep /\ WaveStartStep]_vars

\* two waves have been completed and the third is in progress
WaveCounterKeptWitness ==
    /\ gameState.status = "playing"
    /\ gameState.currentWave = 2
    /\ gameState.waveInProgress
    /\ hist.starts[2] = 1

\* between the waves of a session in play the lawn is empty
LawnEmptyBetweenWaves ==
    (games /\ gameState.status = "playing" /\ ~gameState.waveInProgress) =>
       Len(gameState.zombies) = 0

\* an attacker is spawned only into a wave that is in progress
SpawnStep ==
    gameState'.stats.totalZombiesSpawned # gameState.stats.totalZombiesSpawned =>
       /\ lastCall'.op = "updateGame"
       /\ gameState'.waveInProgress
       /\ hist'.tick.updated

\* a wave is marked complete only when no attacker remains
CompleteStep ==
    (gameState.waveInProgress /\ ~gameState'.waveInProgress) =>
       /\ hist'.tick.complete
       /\ hist'.tick.zombiesAtCheck = 0
       /\ Len(gameState'.zombies) = 0

\* C26: whenever no wave is in progress in a playing session the attacker
\* list is empty: attackers are spawned only while a wave is in progress and
\* a wave is marked complete only when none remain.
NoAttackersBetweenWaves ==
    /\ []LawnEmptyBetweenWaves
    /\ [][SpawnStep /\ CompleteStep]_vars

\* a wave that had attackers on the lawn is over and the next has not begun
NoAttackersBetweenWavesWitness ==
    /\ gameState.status = "playing"
    /\ ~gameState.waveInProgress
    /\ gameState.currentWave = 1
    /\ gameState.stats.totalZombiesSpawned >= 4
    /\ lastCall.op = "updateGame"

\* the plants that look for a target: one of unlimited and one of short
\* range, in any cell of the lawn
Shooters ==
    [type : {PEASHOOTER, PUFF_SHROOM}, row : Rows, col : Cols]

\* the range of a shooter, 10 when its type names none
ReachOf(plant) == IF plant.type = PUFF_SHROOM THEN 3 ELSE 10

\* the attackers of gs a shooter may aim at
Targets(gs, plant) ==
    {i \in 1 .. Len(gs.zombies) :
       /\ gs.zombies[i].health > 0
       /\ gs.zombies[i].row = plant.row
       /\ plant.col <= gs.zombies[i].col
       /\ gs.zombies[i].col <= plant.col + ReachOf(plant)}

\* the answer of findZombieTarget is none when there is nothing to aim at,
\* and otherwise the first listed of the nearest
TargetRight(gs, plant) ==
    LET target == findZombieTarget(gs, plant)
    IN IF Targets(gs, plant) = {} THEN target = 0
       ELSE /\ target \in Targets(gs, plant)
            /\ \A j \in Targets(gs, plant) :
                  gs.zombies[target].col <= gs.zombies[j].col
            /\ \A j \in Targets(gs, plant) :
                  gs.zombies[j].col = gs.zombies[target].col => target <= j

\* the lawn with the attacker at index zi dead and not yet cleaned up
WithDead(zi) == [gameState EXCEPT !.zombies[zi].health = 0]

\* C28: findZombieTarget returns, among the attackers with health > 0 in the
\* plant's row whose column c has plant.col <= c <= plant.col + range
\* (range 10 by default), one of minimum column, the earlier listed on ties;
\* it returns none exactly when there is no such attacker, and never one of
\* another row, behind the plant, or dead.
NearestTargetFound ==
    \A plant \in Shooters :
       /\ TargetRight(gameState, plant)
       /\ \A zi \in 1 .. Len(gameState.zombies) :
             TargetRight(WithDead(zi), plant)

\* two attackers share a row and a column, another is further along the row
\* and another in a different row
NearestTargetFoundWitness ==
    \E i, j, k, l \in 1 .. Len(gameState.zombies) :
       /\ i < j
       /\ gameState.zombies[i].row = gameState.zombies[j].row
       /\ gameState.zombies[i].col = gameState.zombies[j].col
       /\ gameState.zombies[k].row = gameState.zombies[i].row
       /\ gameState.zombies[k].col > gameState.zombies[i].col
       /\ gameState.zombies[l].row # gameState.zombies[i].row
       /\ gameState.zombies[i].col <= 4
       /\ findZombieTarget(gameState,
              [type |-> PEASHOOTER, row |-> gameState.zombies[i].row, col |-> 1]) = i
       /\ findZombieTarget(gameState,
              [type |-> PUFF_SHROOM, row |-> gameState.zombies[i].row, col |-> 1]) = i
       /\ findZombieTarget(gameState,
              [type |-> PEASHOOTER, row |-> gameState.zombies[i].row,
               col |-> gameState.zombies[i].col + 1]) = k

\* an attacker that is alive and on the lawn: in a row of the board, at a
\* position right of the house and not beyond the last column, in the
\* column of that position
OnLawn(zombie) ==
    /\ zombie.health > 0
    /\ zombie.row \in Rows
    /\ 0 < zombie.x
    /\ zombie.x <= (COLS - 1) * XS
    /\ zombie.col = zombie.x \div XS
    /\ zombie.col \in Cols

AllOnLawn ==
    \A zi \in 1 .. Len(gameState.zombies) : OnLawn(gameState.zombies[zi])

\* a callback that took attackers to the edge of the lawn has removed as
\* many from the list, and no attacker moves away from the house
EdgeStep ==
    lastCall'.op = "updateGame" =>
       /\ Len(gameState'.zombies) + Len(hist'.tick.edge)
             <= Len(gameState.zombies)
                  + (gameState'.stats.totalZombiesSpawned
                       - gameState.stats.totalZombiesSpawned)
       /\ \A zi \in 1 .. Len(gameState.zombies) :
             \A zj \in 1 .. Len(gameState'.zombies) :
                gameState'.zombies[zj].id = gameState.zombies[zi].id =>
                   /\ gameState'.zombies[zj].x <= gameState.zombies[zi].x
                   /\ gameState'.zombies[zj].row = gameState.zombies[zi].row

\* C27: at the end of every tick every attacker has health > 0, a row of
\* the board and a position x with 0 < x <= COLS - 1 whose floor is its
\* column; an attacker whose x reaches <= 0 has its health set to 0 and is
\* removed in that same tick.
AttackersStayOnLawn == []AllOnLawn /\ [][EdgeStep]_vars

\* a callback has taken an attacker to the edge and removed it, others
\* staying on the lawn
AttackersStayOnLawnWitness ==
    /\ lastCall.op = "updateGame"
    /\ Len(hist.tick.edge) > 0
    /\ Len(gameState.zombies) > 0
    /\ \E zi \in 1 .. Len(gameState.zombies) : gameState.zombies[zi].col = 0

\* every plant of the list is the plant of the cell at its row and column,
\* every plant of a cell is in the list, and no two plants of the list are
\* the same plant or in the same cell
BoardAgrees ==
    games =>
       /\ \A i \in 1 .. Len(gameState.plants) :
             /\ gameState.plants[i].row \in Rows
             /\ gameState.plants[i].col \in Cols
             /\ gameState.board[<<gameState.plants[i].row,
                                  gameState.plants[i].col>>].plant
                   = gameState.plants[i].id
       /\ \A cell \in Rows \X Cols :
             gameState.board[cell].plant # 0 =>
                \E i \in 1 .. Len(gameState.plants) :
                   /\ gameState.plants[i].id = gameState.board[cell].plant
                   /\ <<gameState.plants[i].row, gameState.plants[i].col>> = cell
       /\ \A i, j \in 1 .. Len(gameState.plants) :
             i # j =>
                /\ gameState.plants[i].id # gameState.plants[j].id
                /\ <<gameState.plants[i].row, gameState.plants[i].col>>
                      # <<gameState.plants[j].row, gameState.plants[j].col>>

\* two requests for one cell, the handler of the first running before that
\* of the second: the second is refused and pays nothing
SecondRefused(first, q, ty) ==
    first.result = "ok" =>
       /\ placePlant(first.w, q, ty, first.row, first.col, now).result
             = "Position already occupied"
       /\ placePlant(first.w, q, ty, first.row, first.col, now).w.gs = first.w.gs

\* the request of player p for a plant of type ty in a cell, with its answer
Request(p, ty, cell) ==
    [w |-> placePlant(World, p, ty, cell[1], cell[2], now).w,
     result |-> placePlant(World, p, ty, cell[1], cell[2], now).result,
     row |-> cell[1], col |-> cell[2]]

RacedTypes == {SUNFLOWER, PEASHOOTER}

\* of two requests for the same cell made at once, in either order, exactly
\* one succeeds and only its player is charged
OneOfTwoPlaced ==
    (games /\ gameState.status = "playing") =>
       \A p, q \in Players, ty1, ty2 \in RacedTypes, cell \in PlacedCells :
          SecondRefused(Request(p, ty1, cell), q, ty2)

\* C24: every cell holds at most one plant and the board and the plant list
\* agree, also after plants were eaten or destroyed themselves; of two
\* placePlant commands for one empty cell issued at once exactly one
\* succeeds and only that one is charged.
OnePlantPerCell == BoardAgrees /\ OneOfTwoPlaced

\* the only plant placed so far has just been eaten
PlantEaten ==
    /\ lastCall.op = "updateGame"
    /\ gameState.stats.totalPlantsPlaced = 1
    /\ Len(gameState.plants) = 0
    /\ \E zi \in 1 .. Len(gameState.zombies) :
          gameState.zombies[zi].lastAttack = now

\* a plant stands on the lawn after a Jalapeno has destroyed itself
PlantDestroyedItself ==
    /\ gameState.status = "playing"
    /\ lastCall.op = "updateGame"
    /\ Len(gameState.plants) = 1
    /\ gameState.plants[1].type # JALAPENO
    /\ gameState.stats.totalPlantsPlaced = 2
    /\ \A p \in Players : ~IsNaN(gameState.players[p].sun)

\* a plant has been eaten, and two players can each pay for a plant in the
\* cell it left
OnePlantPerCellWitness ==
    /\ PlantEaten
    /\ gameState.status = "playing"
    /\ Cardinality(Players) = 2
    /\ \E cell \in PlacedCells :
          /\ Request("alice", SUNFLOWER, cell).result = "ok"
          /\ Request("bob", PEASHOOTER, cell).result = "ok"

\* the slow effects of an attacker that the next callback will find unexpired
SlowEffects(zombie) ==
    {i \in 1 .. Len(zombie.effects) :
       /\ zombie.effects[i].type = "slow"
       /\ zombie.effects[i].endTime > now + period}

\* the attacker stands at a plant and bites rather than walks
InMelee(zi) ==
    LET zombie == gameState.zombies[zi]
        plantId == gameState.board[<<zombie.row, zombie.x \div XS>>].plant
    IN /\ plantId # 0
       /\ 2 * Abs(zombie.x - (zombie.x \div XS) * XS) < XS

\* how far the next callback takes the attacker at index zi of world w
Stride(w, zi) ==
    w.gs.zombies[zi].x
      - updateZombie(w, zi, period, now + period).gs.zombies[zi].x

\* the world with the attacker at index zi free of effects
Unslowed(zi) == [World EXCEPT !.gs.zombies[zi].effects = <<>>]

\* a slowed attacker walks less far than it would unslowed, by the strength
\* of its effect (strength2 / 2) when it carries one
SlowedWalksLess ==
    \A zi \in 1 .. Len(gameState.zombies) :
       (SlowEffects(gameState.zombies[zi]) # {} /\ ~InMelee(zi)) =>
          /\ Stride(World, zi) < Stride(Unslowed(zi), zi)
          /\ \A i \in SlowEffects(gameState.zombies[zi]) :
                Cardinality(SlowEffects(gameState.zombies[zi])) = 1 =>
                   2 * Stride(World, zi)
                      = gameState.zombies[zi].effects[i].strength2
                          * Stride(Unslowed(zi), zi)

\* an attacker whose effects have expired walks at the speed of its type
ExpiredWalksFull ==
    \A zi \in 1 .. Len(gameState.zombies) :
       (SlowEffects(gameState.zombies[zi]) = {} /\ ~InMelee(zi)) =>
          Stride(World, zi) = zombieSpeed(gameState.zombies[zi].type) * period

\* C29: an attacker that is not in melee and carries an unexpired slow
\* effect of strength s moves per tick by type speed x s x dt, strictly less
\* than an unslowed attacker of its type over the same dt; once the effect
\* has expired the full speed applies again.
SlowEffectSlows == SlowedWalksLess /\ ExpiredWalksFull

\* an attacker walks with a slow effect that has not expired
SlowedWalking ==
    \E zi \in 1 .. Len(gameState.zombies) :
       /\ SlowEffects(gameState.zombies[zi]) # {}
       /\ ~InMelee(zi)

\* C30: a slow effect never changes an attacker's base speed for good: once
\* all its slow effects have expired and are purged, its speed field equals
\* the speed of its type.
BaseSpeedRestored ==
    \A zi \in 1 .. Len(gameState.zombies) :
       gameState.zombies[zi].effects = <<>> =>
          gameState.zombies[zi].speed
             = ZOMBIES[gameState.zombies[zi].type].speed
                 * gameState.zombies[zi].speedDen

\* an attacker has been hit by a Snow Pea and its effects are gone again
SlowPurged ==
    \E zi \in 1 .. Len(gameState.zombies) :
       /\ gameState.zombies[zi].effects = <<>>
       /\ gameState.zombies[zi].health < ZOMBIES[gameState.zombies[zi].type].health

\* C21: under any interleaving of the ticks of a session, ticks that
\* overlap at their awaits included, endGame runs at most once: the result
\* is set once, the final scores are computed once and one game_ended event
\* is published.
EndedAtMostOnce == hist.ends <= 1

\* no callback is waiting, or one is and nothing has run since it began to
\* wait
RunsAlone ==
    \/ pending = <<>>
    \/ /\ Len(pending) = 1
       /\ lastCall.op = "updateGame"
       /\ lastCall.result = "awaiting"

\* C23: the ticks of a session interleave neither with each other nor with
\* command handlers: a tick that has started runs to its end, awaited
\* persistence and broadcast included, before the next tick starts and
\* before a command changes the session.
TicksRunToCompletion == RunsAlone

\* a callback of the timer has run on the session in play and left it
\* another than it found it
TickChanged ==
    /\ lastCall'.op = "updateGame"
    /\ pending = <<>> /\ pending' = <<>>
    /\ games /\ gameState.status = "playing"
    /\ gameState' # gameState

\* the snapshot and the game_update event of the step show the session as
\* the step has left it
SavedAndSent ==
    /\ redis' = Stringified(gameState')
    /\ \E i \in 1 .. Len(published') : published'[i].type = "game_update"

\* C31: every tick of a session in play that changes the session (a sun
\* balance, the wave index or flag, an entity, a mower, the status) saves a
\* snapshot and publishes a game_update event that show the state after it.
ChangeIsSaved == [][TickChanged => SavedAndSent]_vars

\* the session is in play with a wave going on, and its timer is set
WaveUpdated ==
    /\ games /\ gameLoops /\ pending = <<>>
    /\ gameState.status = "playing"
    /\ gameState.waveInProgress
    /\ waveManager.exists

\* the attackers that the horde adds in the update of the manager at the
\* next callback: those of update() less those of its timeline
HordeSpawned ==
    Len(update(World, now + period).gs.zombies)
      - Len(processTimeline(World, 0, now + period).gs.zombies)

\* the horde is on and the next callback comes before its end
HordeOn ==
    /\ waveManager.hordeActive
    /\ now + period < waveManager.hordeEndTime

\* while the horde is on, one attacker of the pool of the wave is spawned at
\* a callback that comes spawnRate or more after the last horde spawn, and
\* none at a callback that comes sooner
HordeCadence ==
    (WaveUpdated /\ HordeOn) =>
       IF now + period >= waveManager.lastHordeSpawn + waveManager.hordeSpawnRate
         THEN /\ HordeSpawned = 1
              /\ LET after == update(World, now + period).gs.zombies
                 IN \E i \in 1 .. Len(WAVES[waveManager.currentWaveIndex + 1].zombiePool) :
                       after[Len(after)].type =
                          WAVES[waveManager.currentWaveIndex + 1].zombiePool[i]
         ELSE HordeSpawned = 0

\* the horde is off after the callback that comes at or after its end
HordeEnds ==
    (WaveUpdated /\ waveManager.hordeActive
       /\ now + period >= waveManager.hordeEndTime) =>
       ~update(World, now + period).wm.hordeActive

\* no attacker of the horde is spawned at a callback at or after the end of
\* the horde, nor while no horde is on
NoHordeSpawnPastEnd == (WaveUpdated /\ ~HordeOn) => HordeSpawned = 0

\* a wave starts with no horde on
WaveStartsCalm ==
    (games /\ gameLoops /\ pending = <<>> /\ gameState.status = "playing"
       /\ ~gameState.waveInProgress) =>
       ~beginWave(World, now + period).wm.hordeActive

\* C32: after horde_start, while the horde is on, one attacker of the pool
\* of the wave is spawned each time spawnRate ms or more have passed since
\* the last horde spawn; the horde is off once its duration has passed; no
\* horde attacker is spawned at or after the end time of the horde, after
\* the horde went off, or in a later wave.
HordeKept == HordeCadence /\ HordeEnds /\ NoHordeSpawnPastEnd /\ WaveStartsCalm

\* a horde is on and the next callback comes at or after its end
HordeAboutToEnd ==
    /\ WaveUpdated
    /\ waveManager.hordeActive
    /\ now + period >= waveManager.hordeEndTime

\* the events of the given type that the step has published
PublishedNow(type) ==
    {published'[i].info : i \in {j \in 1 .. Len(published') :
                                     published'[j].type = type}}

\* startGame sets the first wave FIRST_WAVE_DELAY ahead
StartSchedules ==
    (lastCall'.op = "startGame" /\ gameState.status = "waiting"
       /\ gameState'.status = "playing") =>
       gameState'.nextWaveTime = now' + FIRST_WAVE_DELAY

\* the callback that reports a wave complete sets the next wave
\* PREPARATION_TIME ahead
CompleteSchedules ==
    (games /\ gameState'.currentWave # gameState.currentWave) =>
       gameState'.nextWaveTime = now' + PREPARATION_TIME

\* nothing else brings the time of the next wave forward
DeadlineStays ==
    (games /\ games' /\ gameState.status \in {"playing", "paused"}
       /\ gameState'.currentWave = gameState.currentWave) =>
       gameState'.nextWaveTime >= gameState.nextWaveTime

\* a wave is started by a callback whose time is nextWaveTime or later
StartsWhenDue ==
    hist'.starts # hist.starts =>
       /\ lastCall'.op = "updateGame"
       /\ now' >= gameState.nextWaveTime
       /\ PublishedNow("wave_started") = {gameState.currentWave + 1}

\* wave_started(k) is published by the step that starts wave k, which is
\* the wave the counter names; wave_completed(k) by the step that moves the
\* counter from k to k + 1, after wave k was started
EventsInOrder ==
    /\ PublishedNow("wave_started") # {} =>
          /\ PublishedNow("wave_started") = {gameState.currentWave + 1}
          /\ hist.starts[gameState.currentWave] = 0
          /\ hist'.starts[gameState.currentWave] = 1
          /\ PublishedNow("wave_completed") = {}
    /\ PublishedNow("wave_completed") # {} =>
          /\ PublishedNow("wave_completed") = {gameState.currentWave}
          /\ hist.starts[gameState.currentWave] = 1
          /\ gameState'.currentWave = gameState.currentWave + 1
    /\ gameState'.currentWave # gameState.currentWave =>
          PublishedNow("wave_completed") # {}

\* the waves up to the counter have been started once, the later ones not
StartedInTurn ==
    games => \A k \in 0 .. (NumWaves - 1) :
               hist.starts[k] = (IF k < gameState.currentWave
                                   \/ (k = gameState.currentWave
                                         /\ gameState.waveInProgress)
                                 THEN 1 ELSE 0)

\* C33: a wave is started only by a callback whose time is at least
\* nextWaveTime: the first wave not sooner than FIRST_WAVE_DELAY after
\* startGame, wave k + 1 not sooner than PREPARATION_TIME after wave k was
\* reported complete; wave_started(k) comes before wave_completed(k), which
\* comes before wave_started(k + 1).
WavesStartWhenDue ==
    /\ []StartedInTurn
    /\ [][/\ StartSchedules /\ CompleteSchedules /\ DeadlineStays
          /\ StartsWhenDue /\ EventsInOrder]_vars

\* the second wave has been started, the preparation time after the first
\* was reported complete
WavesStartWhenDueWitness ==
    /\ games
    /\ gameState.currentWave = 1
    /\ gameState.waveInProgress
    /\ hist.starts[1] = 1
    /\ hist.waveStart[1].at >= hist.waveStart[0].at + PREPARATION_TIME

\* the session as the next callback has it when it comes to checkCollisions
ProjectilesFlown ==
    updateProjectiles(
      updateZombies(
        updatePlants(
          manageWaves(fallSun(World, now + period), now + period),
          now + period), now + period), now + period)

\* the attackers a projectile touches: in its row, less than half a column
\* away, alive
Touched(w, projectile) ==
    {zi \in 1 .. Len(w.gs.zombies) :
       /\ w.gs.zombies[zi].row = projectile.y
       /\ 2 * Abs(w.gs.zombies[zi].x - projectile.x) < XS
       /\ w.gs.zombies[zi].health > 0}

\* what the collision check of projectile pi makes of the session: a spent
\* projectile and one that touches nobody change nothing; another harms
\* the first attacker it touches, hands it its effects, is spent, and
\* harms nobody when checked again
CollisionRight(w, pi, t) ==
    LET c == collide(w, pi, t)
        projectile == w.gs.projectiles[pi]
    IN IF projectile.remove \/ Touched(w, projectile) = {}
         THEN c = w
         ELSE \E zi \in Touched(w, projectile) :
                /\ \A j \in Touched(w, projectile) : zi <= j
                /\ c.gs.zombies[zi].health =
                      (IF w.gs.zombies[zi].health - projectile.damage <= 0
                         THEN 0
                         ELSE w.gs.zombies[zi].health - projectile.damage)
                /\ Len(c.gs.zombies[zi].effects) =
                      Len(w.gs.zombies[zi].effects) + Len(projectile.effects)
                /\ \A j \in 1 .. Len(w.gs.zombies) :
                      j # zi => c.gs.zombies[j] = w.gs.zombies[j]
                /\ c.gs.projectiles =
                      [w.gs.projectiles EXCEPT ![pi].remove = TRUE]
                /\ collide(c, pi, t) = c

\* the attackers harmed by the collision checks of a callback are no more
\* than the projectiles spent in them, and the cleanup drops what is spent
OneEach(w, t) ==
    /\ Cardinality({zi \in 1 .. Len(w.gs.zombies) :
                      checkCollisions(w, t).gs.zombies[zi] # w.gs.zombies[zi]})
         <= Cardinality({pi \in 1 .. Len(w.gs.projectiles) :
                           checkCollisions(w, t).gs.projectiles[pi]
                             # w.gs.projectiles[pi]})
    /\ \A pi \in 1 .. Len(w.gs.projectiles) :
          \/ checkCollisions(w, t).gs.projectiles[pi] = w.gs.projectiles[pi]
          \/ checkCollisions(w, t).gs.projectiles[pi] =
                [w.gs.projectiles[pi] EXCEPT !.remove = TRUE]

\* a projectile past the right edge is spent before the collisions are
\* checked
SpentPastEdge(w) ==
    \A pi \in 1 .. Len(w.gs.projectiles) :
       w.gs.projectiles[pi].x > COLS * XS => w.gs.projectiles[pi].remove

\* the session with projectile pi at the right edge, flown once more
AtEdge(pi) ==
    updateProjectiles([World EXCEPT !.gs.projectiles[pi].x = COLS * XS],
                      now + period)

\* a projectile of the lawn that has come to the right edge is spent by its
\* next flight, harms nobody and is dropped by the cleanup
LeavesUnharming ==
    \A pi \in 1 .. Len(gameState.projectiles) :
       /\ AtEdge(pi).gs.projectiles[pi].remove
       /\ collide(AtEdge(pi), pi, now + period) = AtEdge(pi)
       /\ \A qi \in 1 .. Len(cleanupEntities(AtEdge(pi), now + period).gs.projectiles) :
             cleanupEntities(AtEdge(pi), now + period).gs.projectiles[qi].id
               # gameState.projectiles[pi].id

CollisionsRight ==
    (games /\ gameLoops /\ pending = <<>> /\ gameState.status = "playing") =>
       \A w \in {ProjectilesFlown} :
          /\ SpentPastEdge(w)
          /\ LeavesUnharming
          /\ OneEach(w, now + period)
          /\ \A pi \in 1 .. Len(w.gs.projectiles) :
                CollisionRight(w, pi, now + period)

\* no callback leaves a spent projectile or one past the right edge behind
NoneSpentLeft ==
    games => \A pi \in 1 .. Len(gameState.projectiles) :
               /\ ~gameState.projectiles[pi].remove
               /\ gameState.projectiles[pi].x <= COLS * XS

\* a projectile that a callback on the session in play leaves on the lawn
\* has flown 0.016 times its speed to the right in it, and its speed is
\* positive: it passes the right edge after finitely many callbacks
FliesOn ==
    (lastCall'.op = "updateGame" /\ games /\ games'
       /\ gameState.status = "playing") =>
       \A pi \in 1 .. Len(gameState.projectiles) :
          \A qi \in 1 .. Len(gameState'.projectiles) :
             gameState'.projectiles[qi].id = gameState.projectiles[pi].id =>
               /\ gameState.projectiles[pi].speed > 0
               /\ gameState'.projectiles[qi].x =
                     gameState.projectiles[pi].x
                       + gameState.projectiles[pi].speed * 16000

ZombiesDue ==
    updatePlants(manageWaves(fallSun(World, now + period), now + period),
                 now + period)

\* the plant that live attacker zi is in contact with: the plant of the cell
\* it stands in, less than half a column from it; 0 when there is none
Bitten(w, zi) ==
    IF /\ w.gs.zombies[zi].health > 0
       /\ w.gs.board[<<w.gs.zombies[zi].row, w.gs.zombies[zi].x \div XS>>].plant # 0
       /\ 2 * Abs(w.gs.zombies[zi].x
                    - (w.gs.zombies[zi].x \div XS) * XS) < XS
      THEN w.gs.board[<<w.gs.zombies[zi].row, w.gs.zombies[zi].x \div XS>>].plant
      ELSE 0

\* the plants of the session by id
PlantsById(w) ==
    {w.gs.plants[i].id : i \in 1 .. Len(w.gs.plants)}

\* what the callback of attacker zi, in contact with a plant, makes of the
\* session at time t: the attacker stays where it is; it bites when
\* attackRate has passed since its last bite, and not before; a plant bitten
\* to health <= 0 leaves the list and its cell, and the attacker walks on in
\* its next callback; a bite is not followed by another within attackRate
MeleeRight(w, zi, deltaMs, t) ==
    LET u == updateZombie(w, zi, deltaMs, t)
        zombie == w.gs.zombies[zi]
        cell == <<zombie.row, zombie.x \div XS>>
        pi == PlantIndex(w.gs, Bitten(w, zi))
        rate == ZOMBIES[zombie.type].attackRate
    IN /\ u.gs.zombies[zi].x = zombie.x
       /\ IF t - zombie.lastAttack < rate
            THEN u.gs.plants = w.gs.plants /\ u.gs.board = w.gs.board
            ELSE
              /\ u.gs.zombies[zi].lastAttack = t
              /\ IF JsLe(JsSub(w.gs.plants[pi].health,
                               ZOMBIES[zombie.type].damage), 0)
                   THEN /\ Bitten(w, zi) \notin PlantsById(u)
                        /\ Len(u.gs.plants) = Len(w.gs.plants) - 1
                        /\ u.gs.board[cell].plant = 0
                        /\ u.gs.board[cell].canPlant
                        /\ updateZombie(u, zi, rate, t + rate).gs.zombies[zi].x
                              < zombie.x
                   ELSE /\ u.gs.plants =
                             [w.gs.plants EXCEPT ![pi].health =
                                JsSub(@, ZOMBIES[zombie.type].damage)]
                        /\ u.gs.board = w.gs.board
                        /\ updateZombie(u, zi, rate, t + rate).gs.zombies[zi].x
                              = zombie.x
              /\ updateZombie(u, zi, rate - 1, t + rate - 1).gs.plants
                    = u.gs.plants

\* C35: an attacker in contact with a plant in its cell does not advance
\* while the plant stands and harms it no more than once per attackRate ms;
\* when the health of the plant reaches <= 0 the plant leaves the plant
\* list and its cell is free to be planted again, after which the attacker
\* goes on advancing.
AttackerEatsPlant ==
    (games /\ gameLoops /\ pending = <<>> /\ gameState.status = "playing") =>
       \A w \in {ZombiesDue} :
          \A zi \in 1 .. Len(w.gs.zombies) :
             Bitten(w, zi) # 0 =>
               MeleeRight(w, zi, period, now + period)

\* the next callback has an attacker bite a plant to death
AttackerEatsPlantWitness ==
    /\ games /\ gameLoops /\ gameState.status = "playing"
    /\ \E w \in {ZombiesDue} :
          \E zi \in 1 .. Len(w.gs.zombies) :
             /\ Bitten(w, zi) # 0
             /\ now + period - w.gs.zombies[zi].lastAttack
                   >= ZOMBIES[w.gs.zombies[zi].type].attackRate
             /\ Bitten(w, zi) \notin
                   PlantsById(updateZombie(w, zi, period, now + period))

\* the next callback has an attacker bite a plant that stands on
AttackerBites ==
    /\ games /\ gameLoops /\ gameState.status = "playing"
    /\ \E w \in {ZombiesDue} :
          \E zi \in 1 .. Len(w.gs.zombies) :
             /\ Bitten(w, zi) # 0
             /\ Bitten(w, zi) \in
                   PlantsById(updateZombie(w, zi, period, now + period))

\* a callback of the timer runs on the session in play
TickInPlay ==
    /\ lastCall'.op = "updateGame"
    /\ pending = <<>> /\ pending' = <<>>
    /\ games /\ games'
    /\ gameState.status = "playing"

\* the Sunflowers of player p whose sunInterval has passed at time t
RipeSunflowers(p, t) ==
    {i \in 1 .. Len(gameState.plants) :
       /\ gameState.plants[i].type = SUNFLOWER
       /\ gameState.plants[i].ownerId = p
       /\ t - gameState.plants[i].lastSunProduction
             >= PLANTS[SUNFLOWER].sunInterval}

\* what the callback at time t owes player p: the sun that falls when the
\* deadline has come, and the production of each ripe Sunflower of p
SunDue(p, t) ==
    (IF t >= gameState.sunFallTimer THEN SUN_FALL_AMOUNT ELSE 0)
      + Cardinality(RipeSunflowers(p, t)) * PLANTS[SUNFLOWER].sunProduction

\* the callback gives every player what it owes, neither more nor less, and
\* sets the deadline one interval ahead when sun has fallen
SunStep ==
    TickInPlay =>
       /\ \A p \in DOMAIN gameState.players :
             gameState'.players[p].sun
               = gameState.players[p].sun + SunDue(p, now')
       /\ gameState'.sunFallTimer =
             (IF now' >= gameState.sunFallTimer
                THEN now' + SUN_FALL_INTERVAL
                ELSE gameState.sunFallTimer)
       /\ \A p \in DOMAIN gameState.players :
             \A i \in RipeSunflowers(p, now') :
                \A j \in 1 .. Len(gameState'.plants) :
                   gameState'.plants[j].id = gameState.plants[i].id =>
                      gameState'.plants[j].lastSunProduction = now'

\* every balance is a number
SunIsNumber ==
    \A p \in DOMAIN gameState.players : ~IsNaN(gameState.players[p].sun)

\* C36: at a tick with now >= sunFallTimer every player receives exactly
\* SUN_FALL_AMOUNT and the deadline becomes now + SUN_FALL_INTERVAL, so
\* passive grants are an interval apart at least; a Sunflower grants its
\* owner sunProduction each time sunInterval or more has passed since its
\* last production, and nothing to any other player.
SunGranted == [][SunStep]_vars

\* the same of the sessions whose balances are numbers
SunGrantedToNumbers == [][SunIsNumber => SunStep]_vars

\* a callback is about to make a Sunflower produce for its owner while
\* another player is in the session
SunflowerRipe ==
    /\ games /\ gameLoops /\ gameState.status = "playing"
    /\ Cardinality(DOMAIN gameState.players) > 1
    /\ \E p \in DOMAIN gameState.players :
          RipeSunflowers(p, now + period) # {}

\* all players of the session have the same score and the same kill count
ScoresAlike ==
    games =>
       \A p, q \in DOMAIN gameState.players :
          /\ gameState.players[p].score = gameState.players[q].score
          /\ gameState.players[p].zombiesKilled
                = gameState.players[q].zombiesKilled

\* killing any attacker of the lawn adds its points and one kill to every
\* player of the session
KillCreditsAll ==
    games =>
       \A zi \in 1 .. Len(gameState.zombies) :
          \A p \in DOMAIN gameState.players :
             /\ killZombie(World, zi).gs.players[p].score
                   = gameState.players[p].score
                       + ZOMBIES[gameState.zombies[zi].type].points
             /\ killZombie(World, zi).gs.players[p].zombiesKilled
                   = gameState.players[p].zombiesKilled + 1

\* a step in which attackers are killed raises the kill count of every
\* player by the kills credited in it
KillsToAll ==
    (games /\ games') =>
       \A p \in DOMAIN gameState.players \cap DOMAIN gameState'.players :
          \/ lastCall'.op = "joinGame"
          \/ /\ gameState'.players[p].score >= gameState.players[p].score
             /\ (gameState'.players[p].zombiesKilled
                    # gameState.players[p].zombiesKilled) =>
                   /\ hist'.credits # hist.credits
                   /\ gameState'.players[p].score
                         > gameState.players[p].score

\* C37: at every moment all players of a session have the same score and
\* the same zombiesKilled: every kill (by projectile, explosion or lawn
\* mower) adds the points of the attacker and one kill to every player in
\* the session, not only to the owner of the plant that caused it.
ScoreIsShared == [](ScoresAlike /\ KillCreditsAll) /\ [][KillsToAll]_vars

\* two players are in a session in which attackers have been killed
ScoreIsSharedWitness ==
    /\ games
    /\ Cardinality(DOMAIN gameState.players) = 2
    /\ \A p \in DOMAIN gameState.players :
          /\ gameState.players[p].zombiesKilled >= 1
          /\ gameState.players[p].score >= 10
    /\ Len(gameState.plants) >= 1

\* the players of the session that have the host flag
Hosts == {p \in DOMAIN gameState.players : gameState.players[p].isHost}

\* C38: every waiting session that has a player has exactly one player with
\* the host flag, so that somebody can start it, under any sequence of
\* joinGame (a join with an id already in the session included) and
\* removePlayer.
WaitingHasOneHost ==
    (games /\ gameState.status = "waiting"
       /\ DOMAIN gameState.players # {}) =>
       Cardinality(Hosts) = 1

\* there is never more than one host
AtMostOneHost == games => Cardinality(Hosts) <= 1

\* a waiting session with players that nobody can start
NobodyCanStart ==
    /\ games /\ gameState.status = "waiting"
    /\ DOMAIN gameState.players # {}
    /\ \A p \in LobbyIds : startGame(World, p, now).result # "ok"

\* a wave manager is installed that plays the wave the session is in
PlaysCurrentWave(w) ==
    /\ w.wm.exists
    /\ w.wm.currentWaveIndex = w.gs.currentWave
    /\ Len(w.wm.waveEvents) > 0

\* the session in play, with a wave in progress, as Redis holds it, gone
\* from the memory of the engine
Lost == restarted(saveGameState(World))

\* both ways of reloading a session with a wave in progress install a
\* manager that plays the wave the session is in
ReloadPlaysCurrentWave ==
    (games /\ gameState.status = "playing" /\ gameState.waveInProgress) =>
       /\ PlaysCurrentWave(reloadActiveGames(Lost, now))
       /\ PlaysCurrentWave(reloadGame(Lost, now + period))

\* the wave in progress of a reloaded session is complete once its
\* duration has passed and no attacker is left, and the session advances
ReloadedAdvances ==
    (games /\ gameState.status = "playing" /\ gameState.waveInProgress
       /\ hist.cmds >= 1) =>
       /\ waveManager.exists
       /\ waveManager.currentWaveIndex = gameState.currentWave

\* C39: when a playing session with a wave in progress is reloaded from its
\* snapshot (by reloadActiveGames, or by updateGame that finds the session
\* missing from memory), a wave manager is installed that plays the wave
\* whose index is currentWave of the session, so that the wave can still
\* complete and the session advance.
ReloadKeepsWave == ReloadPlaysCurrentWave /\ ReloadedAdvances

\* a session reloaded in its first wave has no wave manager
ReloadedWithoutManager ==
    /\ games /\ gameState.status = "playing" /\ gameState.waveInProgress
    /\ lastCall.op = "reloadActiveGames"
    /\ gameState.currentWave = 0
    /\ ~waveManager.exists

\* a session reloaded in a later wave plays the wave before
ReloadedIntoWaveBefore ==
    /\ games /\ gameState.status = "playing" /\ gameState.waveInProgress
    /\ lastCall.op = "reloadActiveGames"
    /\ waveManager.exists
    /\ waveManager.currentWaveIndex = gameState.currentWave - 1

\* a session reloaded while its first wave was in progress never gets out
\* of that wave
StuckInWave ==
    /\ games /\ gameState.status = "playing" /\ gameState.waveInProgress
    /\ hist.cmds >= 1
    /\ gameState.currentWave = 0
    /\ hist.ticks = MaxCampaignTicks

\* the session as the next callback has it when it comes to updatePlants
PlantsDue == manageWaves(fallSun(World, now + period), now + period)

\* the ids of the plants of the list of w
PlantIds(w) == {w.gs.plants[i].id : i \in 1 .. Len(w.gs.plants)}

\* how often updatePlants has evaluated the plant with this id
Evaluated(w, id) ==
    Cardinality({k \in 1 .. Len(w.hist.tick.visited) :
                   w.hist.tick.visited[k] = id})

\* C40: within one tick every plant that is in the plant list when
\* updatePlants begins and is not itself removed by it has its sun
\* production, firing and fuse evaluated exactly once, also in a tick in
\* which a Cherry Bomb or a Jalapeno explodes and leaves the list.
EveryPlantEvaluatedOnce ==
    (games /\ gameLoops /\ pending = <<>> /\ gameState.status = "playing") =>
       \A w \in {PlantsDue} :
          \A after \in {updatePlants(w, now + period)} :
             \A id \in PlantIds(w) \cap PlantIds(after) :
                Evaluated(after, id) = 1

\* no plant is evaluated twice by one updatePlants
NoPlantEvaluatedTwice ==
    (games /\ gameLoops /\ pending = <<>> /\ gameState.status = "playing") =>
       \A w \in {PlantsDue} :
          \A after \in {updatePlants(w, now + period)} :
             \A id \in PlantIds(w) : Evaluated(after, id) <= 1

\* while no plant leaves the list every plant is evaluated once
AllEvaluatedWhenNoneLeaves ==
    (games /\ gameLoops /\ pending = <<>> /\ gameState.status = "playing") =>
       \A w \in {PlantsDue} :
          \A after \in {updatePlants(w, now + period)} :
             PlantIds(after) = PlantIds(w) =>
                \A id \in PlantIds(w) : Evaluated(after, id) = 1

\* the next callback has a bomb explode that is not the last plant of the
\* list
BombBeforeAnother ==
    /\ games /\ gameLoops /\ gameState.status = "playing"
    /\ \E w \in {PlantsDue} :
          \E after \in {updatePlants(w, now + period)} :
             \E i \in 1 .. Len(w.gs.plants) - 1 :
                /\ w.gs.plants[i].id \notin PlantIds(after)
                /\ w.gs.plants[i + 1].id \in PlantIds(after)
                /\ Evaluated(after, w.gs.plants[i + 1].id) = 0

============================================================================
